---- MODULE Spec2Model ----
(***************************************************************************)
(* Model of the V2T media acquisition + transcript normalisation pipeline  *)
(* (src/v2t.py) and of the batch front end run_v2t_batch (src/webui.py).   *)
(*                                                                         *)
(* Six specifications share this module:                                   *)
(*   SpecBuilder - the Segment Builder: FunASREngine._parse_sensevoice_    *)
(*                 output and FunASREngine._parse_paraformer_output as     *)
(*                 pure functions over bounded inputs.                     *)
(*   Spec        - V2T.__init__ / V2T.run over a small file system, with   *)
(*                 the downloader, ffmpeg and the ASR backend as           *)
(*                 nondeterministic collaborators.                         *)
(*   SpecDownload - V2T.download_audio alone, over temp directories that   *)
(*                 hold stale files.                                       *)
(*   SpecInputs  - the input classification, V2T.scan_folder and           *)
(*                 V2T.process_local_file alone, over a richer working     *)
(*                 directory.                                              *)
(*   SpecBatch   - run_v2t_batch: one V2T object per URL and the summary.  *)
(*   SpecWriters - V2T.write_srt and V2T.write_txt as pure functions over  *)
(*                 bounded Segment sequences.                              *)
(*                                                                         *)
(* Text is a sequence of one-character strings.  Characters outside ASCII  *)
(* are written by code point name ("U3002" is the ideographic full stop).  *)
(* Segment times are integers in microseconds (the code uses float         *)
(* seconds); backend timestamps of Paraformer are integers in milliseconds.*)
(***************************************************************************)
EXTENDS Integers, Sequences, FiniteSets, TLC

VARIABLES
    \* ---- Segment Builder (SpecBuilder) ----
    bpc,         \* "input" before the parse call, "parsed" after it
    model_type,  \* which parser the adapter uses: "sensevoice" / "paraformer"
    raw,         \* backend result: tagged text (sensevoice) or result_item (paraformer)
    segments,    \* the returned List[Segment]
    \* ---- V2T.run (Spec) ----
    pc,          \* position of the program: see Phases
    args,        \* argparse namespace: inputs, engine, keep_audio, format, cookies
    fs,          \* file system: set of [path, by] records, by = who wrote the content
    obj,         \* fields of the V2T object: cookies_file, _temp_cookie_file
    local_files, \* _run_internal's local_files list
    urls,        \* _run_internal's urls list
    li,          \* index of the next element of local_files
    ui,          \* index of the next element of urls
    last,        \* what the most recent loop iteration did (observation only)
    \* ---- run_v2t_batch (SpecBatch) ----
    results      \* run_v2t_batch's results list: [url, status, message]

bvars == <<bpc, model_type, raw, segments>>
rvars == <<pc, args, fs, obj, local_files, urls, li, ui, last, results>>
vars == <<bpc, model_type, raw, segments, pc, args, fs, obj, local_files, urls, li, ui, last,
          results>>

(***************************************************************************)
(* Characters and regular-expression character classes                     *)
(***************************************************************************)
LowerChars == {"a", "b", "c", "d", "e", "f", "g", "h", "i", "j", "k", "l", "m",
               "n", "o", "p", "q", "r", "s", "t", "u", "v", "w", "x", "y", "z"}
UpperChars == {"A", "B", "C", "D", "E", "F", "G", "H", "I", "J", "K", "L", "M",
               "N", "O", "P", "Q", "R", "S", "T", "U", "V", "W", "X", "Y", "Z"}
\* [a-zA-Z]
LetterChars == LowerChars \cup UpperChars
\* \d
DigitChars == {"0", "1", "2", "3", "4", "5", "6", "7", "8", "9"}
\* what str.strip() removes
SpaceChars == {" ", "\t", "\n"}
\* [.!?。！？]  (U3002, UFF01, UFF1F are the CJK full-width forms)
SentenceEndChars == {".", "!", "?", "U3002", "UFF01", "UFF1F"}

DigitVal(c) ==
    CASE c = "0" -> 0 [] c = "1" -> 1 [] c = "2" -> 2 [] c = "3" -> 3
      [] c = "4" -> 4 [] c = "5" -> 5 [] c = "6" -> 6 [] c = "7" -> 7
      [] c = "8" -> 8 [] c = "9" -> 9

Max(a, b) == IF a >= b THEN a ELSE b

\* number of consecutive characters of class cls in s starting at position i
RECURSIVE RunLen(_, _, _)
RunLen(s, i, cls) ==
    IF i <= Len(s) /\ s[i] \in cls THEN 1 + RunLen(s, i + 1, cls) ELSE 0

\* s[i..j] (empty when j < i)
Slice(s, i, j) == IF j < i THEN <<>> ELSE SubSeq(s, i, j)

\* "".join(list of strings)
RECURSIVE Join(_)
Join(ss) == IF ss = <<>> THEN <<>> ELSE Head(ss) \o Join(Tail(ss))

\* str.strip()
RECURSIVE LStrip(_)
LStrip(s) == IF s # <<>> /\ Head(s) \in SpaceChars THEN LStrip(Tail(s)) ELSE s
RECURSIVE RStrip(_)
RStrip(s) ==
    IF s # <<>> /\ s[Len(s)] \in SpaceChars THEN RStrip(SubSeq(s, 1, Len(s) - 1)) ELSE s
Strip(s) == RStrip(LStrip(s))

\* re.search(r"[.!?。！？]$", txt): the last character is sentence-final punctuation
\* ($ also matches before one trailing "\n")
EndsSentence(txt) ==
    \/ txt # <<>> /\ txt[Len(txt)] \in SentenceEndChars
    \/ Len(txt) >= 2 /\ txt[Len(txt)] = "\n" /\ txt[Len(txt) - 1] \in SentenceEndChars

(***************************************************************************)
(* FunASREngine._parse_sensevoice_output                                   *)
(***************************************************************************)
\* length of the match of  <\|[cls]+\|>  at position i of s, 0 when none
ClassTagLen(s, i, cls) ==
    IF i + 1 <= Len(s) /\ s[i] = "<" /\ s[i + 1] = "|"
    THEN LET n == RunLen(s, i + 2, cls)
             k == i + 2 + n
         IN IF n >= 1 /\ k + 1 <= Len(s) /\ s[k] = "|" /\ s[k + 1] = ">"
            THEN n + 4 ELSE 0
    ELSE 0

\* least element of a non-empty set of integers
MinOf(S) == CHOOSE x \in S : \A y \in S : x <= y

\* position of the first "<" at or after i, Len(s) + 1 when there is none:
\* the only positions where a tag pattern can start to match
NextOpen(s, i) ==
    LET opens == {j \in i..Len(s) : s[j] = "<"}
    IN IF opens = {} THEN Len(s) + 1 ELSE MinOf(opens)

\* re.sub(r"<\|[cls]+\|>", "", s): leftmost non-overlapping matches removed
RECURSIVE SubClassTagsFrom(_, _, _)
SubClassTagsFrom(s, i, cls) ==
    LET j == NextOpen(s, i)
    IN IF j > Len(s) THEN Slice(s, i, Len(s))
       ELSE LET m == ClassTagLen(s, j, cls)
            IN IF m > 0
               THEN Slice(s, i, j - 1) \o SubClassTagsFrom(s, j + m, cls)
               ELSE Slice(s, i, j) \o SubClassTagsFrom(s, j + 1, cls)
SubClassTags(s, cls) == SubClassTagsFrom(s, 1, cls)

\* length of the match of  <\|\d+\.\d+\|>  at position i of s, 0 when none
TimeTagLen(s, i) ==
    IF i + 1 <= Len(s) /\ s[i] = "<" /\ s[i + 1] = "|"
    THEN LET n == RunLen(s, i + 2, DigitChars)
             d == i + 2 + n
         IN IF n >= 1 /\ d <= Len(s) /\ s[d] = "."
            THEN LET m == RunLen(s, d + 1, DigitChars)
                     k == d + 1 + m
                 IN IF m >= 1 /\ k + 1 <= Len(s) /\ s[k] = "|" /\ s[k + 1] = ">"
                    THEN n + m + 5 ELSE 0
            ELSE 0
    ELSE 0

\* re.split(r"(<\|\d+\.\d+\|>)", s): text, tag, text, tag, ..., text
\* from is the start of the pending text part, i the scan position
RECURSIVE SplitTimeTagsFrom(_, _, _)
SplitTimeTagsFrom(s, from, i) ==
    LET j == NextOpen(s, i)
    IN IF j > Len(s) THEN <<Slice(s, from, Len(s))>>
       ELSE LET m == TimeTagLen(s, j)
            IN IF m > 0
               THEN <<Slice(s, from, j - 1), Slice(s, j, j + m - 1)>>
                        \o SplitTimeTagsFrom(s, j + m, j + m)
               ELSE SplitTimeTagsFrom(s, from, j + 1)
SplitTimeTags(s) == SplitTimeTagsFrom(s, 1, 1)

\* value of a digit string read as an integer
RECURSIVE DigitsVal(_)
DigitsVal(ds) ==
    IF ds = <<>> THEN 0 ELSE DigitsVal(SubSeq(ds, 1, Len(ds) - 1)) * 10 + DigitVal(ds[Len(ds)])

\* one second in the unit of Segment.start / Segment.end
SECOND == 1000000

\* float(part[2:-2]) for a part matching <|digits.digits|>, in microseconds
\* (fraction digits after the sixth are below the model's time resolution)
ParseFloat(part) ==
    LET body == Slice(part, 3, Len(part) - 2)
        n == RunLen(body, 1, DigitChars)
        ip == Slice(body, 1, n)
        fp == Slice(body, n + 2, Len(body))
        f6 == Slice(fp \o <<"0", "0", "0", "0", "0", "0">>, 1, 6)
    IN DigitsVal(ip) * SECOND + DigitsVal(f6)

\* the loop over parts: raw_tokens as a sequence of [time, text]
RECURSIVE RawTokensFrom(_, _, _)
RawTokensFrom(parts, k, current_time) ==
    IF k > Len(parts) THEN <<>>
    ELSE LET part == Strip(parts[k])
         IN IF part = <<>> THEN RawTokensFrom(parts, k + 1, current_time)
            ELSE IF TimeTagLen(part, 1) > 0
                 THEN RawTokensFrom(parts, k + 1, ParseFloat(Slice(part, 1, TimeTagLen(part, 1))))
                 ELSE <<[time |-> current_time, text |-> part]>>
                          \o RawTokensFrom(parts, k + 1, current_time)

\* steps 1 and 2: tag stripping and tokenisation
CleanText(text) == SubClassTags(SubClassTags(text, LetterChars), UpperChars)
RawTokens(text) == RawTokensFrom(SplitTimeTags(CleanText(text)), 1, 0)

\* len("".join(current_seg_text)) > 80
SENSEVOICE_MAX_CHARS == 80
\* max(1.0, len(txt) * 0.2) and raw_tokens[-1][0] + 1.0, in microseconds
PAD_MIN == 1000000
PAD_PER_CHAR == 200000
FLUSH_PAD == 1000000

\* mutation of ShouldSplit: only the length rule closes a candidate
ShouldSplit_LengthOnly(txt, seg_text) ==
    Len(Join(seg_text)) > SENSEVOICE_MAX_CHARS

\* "Decide whether to split into a new segment"
ShouldSplit(txt, seg_text) ==
    LET is_end_of_sentence == EndsSentence(txt)
        is_long_enough == Len(Join(seg_text)) > SENSEVOICE_MAX_CHARS
    IN is_end_of_sentence \/ is_long_enough

\* mutation of SyntheticEnd: the pad is taken from the text length alone
SyntheticEnd_NoMinimum(t, txt) == t + Len(txt) * PAD_PER_CHAR

\* "Last token, add heuristic duration": t + max(1.0, len(txt) * 0.2)
SyntheticEnd(t, txt) == t + Max(PAD_MIN, Len(txt) * PAD_PER_CHAR)

\* mutation of SplitEndTime: the end is always synthesized from the closing token
SplitEndTime_AlwaysPad(raw_tokens, i) ==
    SyntheticEnd(raw_tokens[i].time, raw_tokens[i].text)

\* "Determine end time" of the segment closed at token i
SplitEndTime(raw_tokens, i) ==
    IF i + 1 <= Len(raw_tokens)
    THEN raw_tokens[i + 1].time
    ELSE SyntheticEnd(raw_tokens[i].time, raw_tokens[i].text)

\* mutation of NextSegStart: the start of the closed segment is kept
NextSegStart_Unchanged(raw_tokens, i, current_seg_start) == current_seg_start

\* "Reset for next segment": current_seg_start after closing at token i
NextSegStart(raw_tokens, i, current_seg_start) ==
    IF i + 1 <= Len(raw_tokens) THEN raw_tokens[i + 1].time ELSE current_seg_start

\* mutation of FlushSegment: the pad is added to the candidate's start
FlushSegment_FromStart(raw_tokens, current_seg_text, current_seg_start) ==
    IF current_seg_text # <<>>
    THEN <<[start |-> current_seg_start,
            end |-> current_seg_start + FLUSH_PAD,
            text |-> Join(current_seg_text)]>>
    ELSE <<>>

\* "Flush remaining"
FlushSegment(raw_tokens, current_seg_text, current_seg_start) ==
    IF current_seg_text # <<>>
    THEN <<[start |-> current_seg_start,
            end |-> raw_tokens[Len(raw_tokens)].time + FLUSH_PAD,
            text |-> Join(current_seg_text)]>>
    ELSE <<>>

\* step 3: the merge loop.  i is the index of the token being appended,
\* current_seg_text the list of token texts of the candidate.
RECURSIVE MergeTokens(_, _, _, _)
MergeTokens(raw_tokens, i, current_seg_text, current_seg_start) ==
    IF i > Len(raw_tokens)
    THEN FlushSegment(raw_tokens, current_seg_text, current_seg_start)
    ELSE LET txt == raw_tokens[i].text
             seg_text == Append(current_seg_text, txt)
         IN IF ShouldSplit(txt, seg_text)
            THEN <<[start |-> current_seg_start, end |-> SplitEndTime(raw_tokens, i),
                    text |-> Join(seg_text)]>>
                     \o MergeTokens(raw_tokens, i + 1, <<>>,
                                    NextSegStart(raw_tokens, i, current_seg_start))
            ELSE MergeTokens(raw_tokens, i + 1, seg_text, current_seg_start)

\* mutation of ParseSensevoiceOutput: the merge loop starts at the second token
ParseSensevoiceOutput_SkipFirst(text) ==
    LET raw_tokens == RawTokens(text)
    IN IF raw_tokens = <<>> THEN <<>>
       ELSE MergeTokens(raw_tokens, 2, <<>>, raw_tokens[1].time)

ParseSensevoiceOutput(text) ==
    LET raw_tokens == RawTokens(text)
    IN IF raw_tokens = <<>> THEN <<>>
       ELSE MergeTokens(raw_tokens, 1, <<>>, raw_tokens[1].time)

(***************************************************************************)
(* FunASREngine._parse_paraformer_output                                   *)
(* result_item is [text, timestamp, sentence_info]; a missing key is the   *)
(* .get default (empty).  timestamp entries are <<start_ms, end_ms>>,      *)
(* sentence_info entries are [start, end, text] with start/end in ms.      *)
(* None is <<>>, a present value v is <<v>>.                               *)
(***************************************************************************)
PARAFORMER_MAX_CHARS == 60

\* mutation of MsToSeconds: the division by 1000 applied twice
MsToSeconds_DividedTwice(ms) == ms * (SECOND \div 1000000)

\* x / 1000.0: milliseconds to seconds (here microseconds)
MsToSeconds(ms) == ms * (SECOND \div 1000)

\* "current_start or 0.0"
OrZero(opt) == IF opt = <<>> THEN 0 ELSE opt[1]

\* the sentence_info branch
RECURSIVE SentenceSegments(_)
SentenceSegments(sentences) ==
    IF sentences = <<>> THEN <<>>
    ELSE LET sent == Head(sentences)
         IN (IF sent.text # <<>>
             THEN <<[start |-> MsToSeconds(sent.start), end |-> MsToSeconds(sent.end),
                     text |-> sent.text]>>
             ELSE <<>>) \o SentenceSegments(Tail(sentences))

\* the character-grouping loop and its flush, one step per Segment: the
\* candidate opened at character p (current_start = start of p) is closed at
\* the first character i >= p that ends a sentence or makes the candidate
\* longer than the limit; if there is none the candidate is flushed at the end.
RECURSIVE GroupChars(_, _, _)
GroupChars(words, timestamps, p) ==
    IF p > Len(words) THEN <<>>
    ELSE LET current_start == <<MsToSeconds(timestamps[p][1])>>
             closing == {i \in p..Len(words) :
                            \/ EndsSentence(<<words[i]>>)
                            \/ i - p + 1 > PARAFORMER_MAX_CHARS}
         IN IF closing = {}
            THEN <<[start |-> OrZero(current_start),
                    end |-> OrZero(<<MsToSeconds(timestamps[Len(words)][2])>>),
                    text |-> Slice(words, p, Len(words))]>>
            ELSE LET i == MinOf(closing)
                 IN <<[start |-> current_start[1],
                       end |-> MsToSeconds(timestamps[i][2]),
                       text |-> Slice(words, p, i)]>>
                        \o GroupChars(words, timestamps, i + 1)

\* mutation of ParseParaformerOutput: a longer timestamp array is aligned anyway
ParseParaformerOutput_GuessAlignment(result_item) ==
    LET text == result_item.text
        timestamps == result_item.timestamp
        sentences == result_item.sentence_info
    IN IF sentences # <<>> THEN SentenceSegments(sentences)
       ELSE IF timestamps # <<>> /\ text # <<>>
            THEN IF Len(timestamps) >= Len(text)
                 THEN GroupChars(text, timestamps, 1)
                 ELSE <<[start |-> 0, end |-> 0, text |-> text]>>
            ELSE IF text # <<>>
                 THEN <<[start |-> 0, end |-> 0, text |-> text]>>
                 ELSE <<>>

ParseParaformerOutput(result_item) ==
    LET text == result_item.text
        timestamps == result_item.timestamp
        sentences == result_item.sentence_info
    IN IF sentences # <<>> THEN SentenceSegments(sentences)
       ELSE IF timestamps # <<>> /\ text # <<>>
            THEN IF Len(timestamps) = Len(text)
                 THEN GroupChars(text, timestamps, 1)
                 ELSE <<[start |-> 0, end |-> 0, text |-> text]>>
            ELSE IF text # <<>>
                 THEN <<[start |-> 0, end |-> 0, text |-> text]>>
                 ELSE <<>>

(***************************************************************************)
(* Inputs of the Segment Builder                                           *)
(***************************************************************************)
\* sequences over S of length at most n
SeqsUpTo(S, n) == UNION {[1..k -> S] : k \in 0..n}

\* number of pieces a generated SenseVoice text is made of
MaxPieces == 4
\* number of pieces a generated Paraformer text is made of
MaxPfPieces == 3

TagT050 == <<"<", "|", "0", ".", "5", "0", "|", ">">>
TagT200 == <<"<", "|", "2", ".", "0", "0", "|", ">">>
TagLang == <<"<", "|", "z", "h", "|", ">">>
WordHi == <<"H", "i">>
WordYo == <<" ", "y", "o">>
FullStop == <<".">>
CjkFullStop == <<"U3002">>
\* a token of 41 characters: two of them exceed 80, one does not
LongWord == [i \in 1..41 |-> "a"]

SvPieces == {TagT050, TagT200, TagLang, WordHi, WordYo, FullStop, CjkFullStop, LongWord}

\* "<|0.00|>Hello<|1.50|> world<|3.00|>."
ExampleText ==
    <<"<", "|", "0", ".", "0", "0", "|", ">", "H", "e", "l", "l", "o",
      "<", "|", "1", ".", "5", "0", "|", ">", " ", "w", "o", "r", "l", "d",
      "<", "|", "3", ".", "0", "0", "|", ">", ".">>
\* the same followed by "<|4.25|>Bye"
ExampleTextMore ==
    ExampleText \o <<"<", "|", "4", ".", "2", "5", "|", ">", "B", "y", "e">>

\* "<|0.50|><|zh|><|EMO_UNKNOWN|>Hi yo.": an affect marker with an underscore
EmoText ==
    TagT050 \o TagLang
        \o <<"<", "|", "E", "M", "O", "_", "U", "N", "K", "N", "O", "W", "N", "|", ">">>
        \o WordHi \o WordYo \o FullStop
\* "<|0.50|>Hi.<|3|> yo.": a timestamp marker without a fractional part
IntegerTimeText ==
    TagT050 \o WordHi \o FullStop \o <<"<", "|", "3", "|", ">">> \o WordYo \o FullStop

\* the last text is "Hi.<|0.50|>Hi<|2.00|> yo": a closed sentence, then two
\* tokens left over
SvTexts == {Join(ps) : ps \in SeqsUpTo(SvPieces, MaxPieces)}
               \cup {ExampleText, ExampleTextMore, EmoText, IntegerTimeText,
                     WordHi \o FullStop \o TagT050 \o WordHi \o TagT200 \o WordYo}

\* a run of 31 characters: two of them exceed 60, one does not
LongRun == [i \in 1..31 |-> "c"]
PfPieces == {<<"a", "b">>, FullStop, <<" ">>, CjkFullStop, LongRun}
PfTexts == {Join(ps) : ps \in SeqsUpTo(PfPieces, MaxPfPieces)}

\* per-character [start_ms, end_ms] arrays of length n
TimestampPatterns == {"contiguous", "gaps", "decreasing", "zero"}
Timestamps(pattern, n) ==
    [i \in 1..n |->
        CASE pattern = "contiguous" -> <<(i - 1) * 100, i * 100>>
          [] pattern = "gaps" -> <<(i - 1) * 100, (i - 1) * 100 + 60>>
          [] pattern = "decreasing" -> <<(n - i) * 100, (n - i) * 100 + 100>>
          [] pattern = "zero" -> <<0, 0>>]

SentenceInfos ==
    {<<>>,
     <<[start |-> 0, end |-> 1500, text |-> <<"H", "i", ".">>],
       [start |-> 1500, end |-> 2500, text |-> <<"y", "o">>]>>,
     <<[start |-> 250, end |-> 1250, text |-> <<"H", "i">>],
       [start |-> 1250, end |-> 1300, text |-> <<>>],
       [start |-> 1300, end |-> 2750, text |-> <<" ", "y", "o", ".">>]>>}

PfItems ==
    {[text |-> t, timestamp |-> Timestamps(p, n), sentence_info |-> si] :
        <<t, p, n, si>> \in
            {q \in PfTexts \X TimestampPatterns \X (0..(MaxPfPieces * 31 + 1)) \X SentenceInfos :
                q[3] \in {0, Len(q[1]), Len(q[1]) + 1, Max(Len(q[1]) - 1, 0)}}}

(***************************************************************************)
(* The V2T.run variables while only the Segment Builder is exercised       *)
(***************************************************************************)
RunIdle ==
    /\ pc = "idle"
    /\ args = <<>>
    /\ fs = {}
    /\ obj = <<>>
    /\ local_files = <<>>
    /\ urls = <<>>
    /\ li = 0
    /\ ui = 0
    /\ last = <<>>
    /\ results = <<>>

BuilderInit ==
    /\ bpc = "input"
    /\ model_type \in {"sensevoice", "paraformer"}
    /\ raw \in (IF model_type = "sensevoice" THEN SvTexts ELSE PfItems)
    /\ segments = <<>>
    /\ RunIdle

\* FunASREngine.transcribe, SenseVoice branch of the loop over res
ParseSensevoice ==
    /\ bpc = "input"
    /\ model_type = "sensevoice"
    /\ segments' = ParseSensevoiceOutput(raw)
    /\ bpc' = "parsed"
    /\ UNCHANGED <<model_type, raw>>
    /\ UNCHANGED rvars

\* FunASREngine.transcribe, Paraformer branch of the loop over res
ParseParaformer ==
    /\ bpc = "input"
    /\ model_type = "paraformer"
    /\ segments' = ParseParaformerOutput(raw)
    /\ bpc' = "parsed"
    /\ UNCHANGED <<model_type, raw>>
    /\ UNCHANGED rvars

BuilderNext == ParseSensevoice \/ ParseParaformer

SpecBuilder == BuilderInit /\ [][BuilderNext]_vars

(***************************************************************************)
(* Properties of the Segment Builder (checked under SpecBuilder)           *)
(***************************************************************************)
SensevoiceParsed == bpc = "parsed" /\ model_type = "sensevoice"
ParaformerParsed == bpc = "parsed" /\ model_type = "paraformer"

\* the character-grouping branch of _parse_paraformer_output was taken
CharGroupingParsed ==
    /\ ParaformerParsed
    /\ raw.sentence_info = <<>>
    /\ raw.timestamp # <<>>
    /\ raw.text # <<>>
    /\ Len(raw.timestamp) = Len(raw.text)

\* the parallel arrays disagree in length and there are no sentence spans
MismatchParsed ==
    /\ ParaformerParsed
    /\ raw.sentence_info = <<>>
    /\ Len(raw.timestamp) # Len(raw.text)

\* C1: every Segment returned by the Segment Builder (SenseVoice parser and
\* the character-grouping branch of the Paraformer parser) has start <= end
\* and a text that is non-empty after trimming, for every input, timestamps
\* that are not increasing included.
C1_SegmentsWellFormed ==
    (SensevoiceParsed \/ CharGroupingParsed) =>
        \A k \in 1..Len(segments) :
            /\ segments[k].start <= segments[k].end
            /\ Strip(segments[k].text) # <<>>

HelloWorldText == <<"H", "e", "l", "l", "o", " ", "w", "o", "r", "l", "d", ".">>

\* C2: parsing "<|0.00|>Hello<|1.50|> world<|3.00|>." yields exactly one Segment
\* with text "Hello world." (the space kept), start 0.0 and end 3.0 plus the
\* synthesized pad; when more tokens follow, the end is the next token's time.
C2_HelloWorldExample ==
    /\ (SensevoiceParsed /\ raw = ExampleText) =>
           segments = <<[start |-> 0, end |-> 3 * SECOND + Max(SECOND, 1 * (SECOND \div 5)),
                         text |-> HelloWorldText]>>
    /\ (SensevoiceParsed /\ raw = ExampleTextMore) =>
           /\ Len(segments) >= 1
           /\ segments[1] = [start |-> 0, end |-> 4 * SECOND + SECOND \div 4,
                              text |-> HelloWorldText]

\* C3 (as claimed): on a length mismatch without sentence spans the result is
\* exactly one Segment holding the whole text with start = end = 0.0, an empty
\* text or an empty timestamp array included.
C3_MismatchAlwaysOneSegment ==
    MismatchParsed => segments = <<[start |-> 0, end |-> 0, text |-> raw.text]>>

\* C3 (amended): on a length mismatch without sentence spans the result is
\* exactly one Segment holding the whole text with start = end = 0.0 when the
\* text is non-empty, and the empty sequence when the text is empty.
C3_MismatchFallback ==
    MismatchParsed =>
        IF raw.text # <<>>
        THEN segments = <<[start |-> 0, end |-> 0, text |-> raw.text]>>
        ELSE segments = <<>>

\* a mismatch with both arrays non-empty has been parsed
C3_Witness ==
    /\ MismatchParsed
    /\ raw.text # <<>>
    /\ raw.timestamp # <<>>
    /\ Len(segments) = 1

\* no token ends in sentence-final punctuation
NoSentenceEnd(toks) == \A i \in 1..Len(toks) : ~EndsSentence(toks[i].text)

\* length of the concatenated text of the first k tokens
PrefixLen(toks, k) == Len(Join([i \in 1..k |-> toks[i].text]))

\* index of the first token at which the concatenated text exceeds limit
FirstExceeding(toks, limit) ==
    CHOOSE k \in 1..Len(toks) :
        /\ PrefixLen(toks, k) > limit
        /\ \A j \in 1..(k - 1) : PrefixLen(toks, j) <= limit

\* a SenseVoice run without sentence-final punctuation, longer than 80 characters
LongRunSensevoice ==
    /\ SensevoiceParsed
    /\ RawTokens(raw) # <<>>
    /\ NoSentenceEnd(RawTokens(raw))
    /\ PrefixLen(RawTokens(raw), Len(RawTokens(raw))) > 80

\* a Paraformer character run without sentence-final punctuation, longer than 60
LongRunParaformer ==
    /\ CharGroupingParsed
    /\ \A i \in 1..Len(raw.text) : raw.text[i] \notin SentenceEndChars
    /\ Len(raw.text) > 60

CumAt(cum, k) == IF k = 0 THEN 0 ELSE cum[k]

RECURSIVE Candidates(_, _, _, _)
Candidates(ends, cum, p, limit) ==
    IF p > Len(ends) THEN <<>>
    ELSE LET closing == {i \in p..Len(ends) :
                            ends[i] \/ cum[i] - CumAt(cum, p - 1) > limit}
         IN IF closing = {}
            THEN <<[first |-> p, last |-> Len(ends), split |-> FALSE]>>
            ELSE <<[first |-> p, last |-> MinOf(closing), split |-> TRUE]>>
                     \o Candidates(ends, cum, MinOf(closing) + 1, limit)

\* the candidates of a SenseVoice token stream
TokenCandidates(toks) ==
    Candidates([i \in 1..Len(toks) |-> EndsSentence(toks[i].text)],
               [i \in 1..Len(toks) |-> PrefixLen(toks, i)], 1, 80)

\* the candidates of a Paraformer character stream
CharCandidates(text) ==
    Candidates([i \in 1..Len(text) |-> text[i] \in SentenceEndChars],
               [i \in 1..Len(text) |-> i], 1, 60)

\* concatenated text of tokens first..last
RangeText(toks, lo, hi) ==
    Join([k \in 1..(hi - lo + 1) |-> toks[lo + k - 1].text])

\* C22 (as claimed): on a split decision the Segment ends at the next token's
\* start time if a token follows; if the candidate is closed at the final
\* token, the end is start + max(1.0, 0.2 * len(text)) with start and text
\* the start time and the text of the Segment being closed.
C22_EndFromSegmentStartAndText ==
    SensevoiceParsed =>
        LET toks == RawTokens(raw)
            cands == TokenCandidates(toks)
        IN /\ Len(segments) = Len(cands)
           /\ \A k \in 1..Len(cands) :
                  cands[k].split =>
                      segments[k].end =
                          IF cands[k].last < Len(toks)
                          THEN toks[cands[k].last + 1].time
                          ELSE segments[k].start
                                   + Max(SECOND, Len(segments[k].text) * (SECOND \div 5))

\* C22 (amended): on a split decision the Segment ends at the next token's
\* start time if a token follows; if the candidate is closed at the final
\* token, the end is t + max(1.0, 0.2 * len(txt)) with t and txt the time and
\* the text of that final token.
C22_EndFromClosingToken ==
    SensevoiceParsed =>
        LET toks == RawTokens(raw)
            cands == TokenCandidates(toks)
        IN /\ Len(segments) = Len(cands)
           /\ \A k \in 1..Len(cands) :
                  cands[k].split =>
                      segments[k].end =
                          IF cands[k].last < Len(toks)
                          THEN toks[cands[k].last + 1].time
                          ELSE toks[cands[k].last].time
                                   + Max(SECOND, Len(toks[cands[k].last].text) * (SECOND \div 5))

\* a candidate of several tokens was closed at the final token, whose time is
\* later than the candidate's start
C22_Witness ==
    /\ SensevoiceParsed
    /\ LET toks == RawTokens(raw)
           cands == TokenCandidates(toks)
       IN /\ Len(cands) >= 1
          /\ Len(segments) = Len(cands)
          /\ cands[Len(cands)].split
          /\ cands[Len(cands)].first < cands[Len(cands)].last
          /\ toks[Len(toks)].time > segments[Len(cands)].start
          /\ segments[Len(cands)].end = toks[Len(toks)].time + SECOND

\* lengths of the concatenated texts of the first k Segments, k = 1..Len(segs)
SegmentCuts(segs) ==
    {Len(Join([j \in 1..k |-> segs[j].text])) : k \in 1..Len(segs)}

\* C23: a token that ends in sentence-final punctuation is always the last
\* token of its Segment, and every Segment other than the last one ends at
\* such a token or has text longer than the length threshold (80 in the
\* SenseVoice parser, 60 in the character grouping of the Paraformer parser).
C23_PunctuationCloses ==
    /\ SensevoiceParsed =>
           LET toks == RawTokens(raw)
           IN /\ \A i \in 1..Len(toks) :
                     EndsSentence(toks[i].text) => PrefixLen(toks, i) \in SegmentCuts(segments)
              /\ \A k \in 1..(Len(segments) - 1) :
                     \/ EndsSentence(segments[k].text)
                     \/ Len(segments[k].text) > 80
    /\ CharGroupingParsed =>
           /\ \A i \in 1..Len(raw.text) :
                  raw.text[i] \in SentenceEndChars => i \in SegmentCuts(segments)
           /\ \A k \in 1..(Len(segments) - 1) :
                  \/ segments[k].text[Len(segments[k].text)] \in SentenceEndChars
                  \/ Len(segments[k].text) > 60

\* a token ending in sentence-final punctuation was followed by more tokens,
\* and the Segment it closed is shorter than the length threshold
C23_Witness ==
    /\ SensevoiceParsed
    /\ Len(segments) >= 2
    /\ Len(RawTokens(raw)) >= 3
    /\ EndsSentence(segments[1].text)
    /\ Len(segments[1].text) <= 80
    /\ ~EndsSentence(RawTokens(raw)[1].text)

\* s contains the two characters "<|" that open a bracketed tag
HasTagOpener(s) == \E i \in 1..(Len(s) - 1) : s[i] = "<" /\ s[i + 1] = "|"

\* C24: every bracketed tag whose content is not a numeric timestamp, tags
\* with underscores, digits or other non-letter characters included, is
\* removed, and every numeric timestamp marker, with or without a fractional
\* part, is a split point: no Segment's text holds a bracketed tag.
C24_NoTagInSegmentText ==
    SensevoiceParsed =>
        \A k \in 1..Len(segments) : ~HasTagOpener(segments[k].text)

\* C25: tokens that remain in the candidate after the last token without a
\* split decision become exactly one final Segment, whose start is the time
\* of the first token of the candidate and whose end is the time of the last
\* token plus 1 second; if no tokens remain, no extra Segment is emitted
\* (there are as many Segments as closed candidates).
C25_TrailingFlush ==
    SensevoiceParsed =>
        LET toks == RawTokens(raw)
            cands == TokenCandidates(toks)
            n == Len(cands)
        IN /\ Len(segments) = n
           /\ (n >= 1 /\ ~cands[n].split) =>
                  segments[n] = [start |-> toks[cands[n].first].time,
                                 end |-> toks[Len(toks)].time + SECOND,
                                 text |-> RangeText(toks, cands[n].first, Len(toks))]

\* a trailing candidate of several tokens with different times was flushed
\* after an earlier candidate had been closed
C25_Witness ==
    /\ SensevoiceParsed
    /\ LET toks == RawTokens(raw)
           cands == TokenCandidates(toks)
           n == Len(cands)
       IN /\ n >= 2
          /\ Len(segments) = n
          /\ ~cands[n].split
          /\ cands[n].first < cands[n].last
          /\ toks[cands[n].first].time < toks[Len(toks)].time
          /\ segments[n].end = toks[Len(toks)].time + SECOND

\* C28: the concatenation of the Segment texts equals the concatenation of
\* the raw token texts, and each token lies in exactly one Segment: Segment k
\* holds the tokens of candidate k in order (likewise each character in the
\* character grouping of the Paraformer parser).
C28_TextPreserved ==
    /\ SensevoiceParsed =>
           LET toks == RawTokens(raw)
               cands == TokenCandidates(toks)
           IN /\ Join([k \in 1..Len(segments) |-> segments[k].text])
                     = Join([i \in 1..Len(toks) |-> toks[i].text])
              /\ Len(segments) = Len(cands)
              /\ \A k \in 1..Len(cands) :
                     segments[k].text = RangeText(toks, cands[k].first, cands[k].last)
    /\ CharGroupingParsed =>
           LET cands == CharCandidates(raw.text)
           IN /\ Join([k \in 1..Len(segments) |-> segments[k].text]) = raw.text
              /\ Len(segments) = Len(cands)
              /\ \A k \in 1..Len(cands) :
                     segments[k].text = Slice(raw.text, cands[k].first, cands[k].last)

\* several tokens were merged into several Segments
C28_Witness ==
    /\ SensevoiceParsed
    /\ Len(RawTokens(raw)) >= 3
    /\ Len(segments) = 2
    /\ Len(segments[1].text) > Len(RawTokens(raw)[1].text)
    /\ segments[2].text # <<>>

\* the token times never decrease
NonDecreasingTimes(toks) ==
    \A i \in 1..(Len(toks) - 1) : toks[i].time <= toks[i + 1].time

\* C29: when the token timestamps are non-decreasing, the Segments are
\* non-decreasing in start and each Segment's end equals the start of the
\* next Segment, which is the time of the first token of that next Segment.
C29_SegmentsOrderedAndAdjacent ==
    (SensevoiceParsed /\ NonDecreasingTimes(RawTokens(raw))) =>
        LET toks == RawTokens(raw)
            cands == TokenCandidates(toks)
        IN /\ Len(segments) = Len(cands)
           /\ \A k \in 1..(Len(segments) - 1) :
                  /\ segments[k].start <= segments[k + 1].start
                  /\ segments[k].end = segments[k + 1].start
                  /\ segments[k + 1].start = toks[cands[k + 1].first].time

\* increasing token times gave two Segments with different starts
C29_Witness ==
    /\ SensevoiceParsed
    /\ NonDecreasingTimes(RawTokens(raw))
    /\ Len(segments) >= 2
    /\ segments[1].start < segments[2].start
    /\ segments[1].end = segments[2].start

(***************************************************************************)
(* V2T: paths, file system and the pure helpers of the acquisition         *)
(* pipeline.  A path is [dir, stem, ext]; the stem is a sequence of name   *)
(* parts so that "<stem>_extracted" and "<title>_<id>" can be formed.      *)
(* The file system is a set of [path, by]: by = "caller" for content that  *)
(* existed before the run, "pipeline" for content the program wrote.       *)
(***************************************************************************)
Path(dir, stem, ext) == [dir |-> dir, stem |-> stem, ext |-> ext]
NoPath == Path("", <<>>, "")

\* self.temp_dir = Path("temp_audio"), self.output_dir = Path(args.output)
TEMP_DIR == "temp_audio"
OUTPUT_DIR == "output"

SUPPORTED_VIDEO_FORMATS == {".mp4", ".mkv", ".avi", ".mov"}
SUPPORTED_AUDIO_FORMATS == {".mp3", ".wav", ".flac", ".m4a"}
SUPPORTED_MEDIA_FORMATS == SUPPORTED_VIDEO_FORMATS \cup SUPPORTED_AUDIO_FORMATS

\* str.lower() on a suffix
LowerExt(ext) ==
    CASE ext = ".MP4" -> ".mp4" [] ext = ".MKV" -> ".mkv" [] ext = ".AVI" -> ".avi"
      [] ext = ".MOV" -> ".mov" [] ext = ".MP3" -> ".mp3" [] ext = ".WAV" -> ".wav"
      [] ext = ".FLAC" -> ".flac" [] ext = ".M4A" -> ".m4a" [] ext = ".Mp4" -> ".mp4"
      [] ext = ".TXT" -> ".txt"
      [] OTHER -> ext

\* Path.with_suffix
WithSuffix(p, ext) == Path(p.dir, p.stem, ext)

Exists(files, p) == \E f \in files : f.path = p
\* a program writing p: creates it or replaces its content
WriteFile(files, p) == {f \in files : f.path # p} \cup {[path |-> p, by |-> "pipeline"]}
\* os.remove(p)
RemoveFile(files, p) == {f \in files : f.path # p}

\* the caller's assets
ClipVideo == Path("media", <<"clip">>, ".mp4")
TalkAudio == Path("media", <<"talk">>, ".mp3")
\* an audio file the caller keeps inside temp_audio (e.g. retained by --keep-audio)
KeptAudio == Path(TEMP_DIR, <<"clip", "_extracted">>, ".mp3")
MediaFolder == Path("media", <<>>, "")
CookiesTxt == Path(".", <<"cookies">>, ".txt")
\* the file tempfile.mkstemp(prefix="v2t_cookies_", suffix=".txt") creates
TempCookie == Path("/tmp", <<"v2t_cookies_", "mkstemp">>, ".txt")

CallerFiles == {ClipVideo, TalkAudio, KeptAudio}

\* further files and folders a caller may hold (SpecInputs): extensions in upper
\* and mixed case, an unsupported one, a subfolder, list files, a media file
\* whose name starts with "www."
LoudVideo == Path("media", <<"LOUD">>, ".MP4")
MemoVideo == Path("media", <<"memo">>, ".Mp4")
NotesDoc == Path("media", <<"notes">>, ".doc")
SubFolder == Path("media/sub", <<>>, "")
SubClip == Path("media/sub", <<"clip">>, ".mkv")
EmptyFolder == Path("empty", <<>>, "")
MissingFolder == Path("nowhere", <<>>, "")
MissingVideo == Path("media", <<"gone">>, ".mp4")
UrlList == Path(".", <<"urls">>, ".txt")
WwwList == Path(".", <<"www.list">>, ".TXT")
WwwVideo == Path(".", <<"www.clip">>, ".mp4")
AllFiles == CallerFiles \cup {LoudVideo, MemoVideo, NotesDoc, SubClip, UrlList, WwwList, WwwVideo}

ExistingDirs == {MediaFolder, SubFolder, EmptyFolder}
\* the directory a directory lies in ("" when it lies in the working directory)
ParentDir(dir) == IF dir = "media/sub" THEN "media" ELSE ""
\* sorted(...) order of the resolved path strings of the media and temp files
SortedCallerFiles ==
    <<LoudVideo, ClipVideo, MemoVideo, NotesDoc, SubClip, TalkAudio, KeptAudio>>

\* an element of args.inputs: urlish = starts with http://, https:// or www.;
\* path = Path(input_arg); url = the string itself where the model needs it
LocalInput(p) == [urlish |-> FALSE, path |-> p, url |-> ""]
UrlInput(u) == [urlish |-> TRUE, path |-> NoPath, url |-> u]
NamedInput(p, name) == [urlish |-> FALSE, path |-> p, url |-> name]
UrlishInput(p, name) == [urlish |-> TRUE, path |-> p, url |-> name]

\* the stripped non-empty lines of a list file
FileLines(p) ==
    IF p = UrlList
    THEN <<LocalInput(MemoVideo), LocalInput(SubFolder), UrlInput("https://v/2"),
           NamedInput(UrlList, "urls.txt")>>
    ELSE IF p = WwwList THEN <<UrlInput("https://v/3")>>
    ELSE <<>>
InputUniverse ==
    {LocalInput(ClipVideo), LocalInput(KeptAudio), LocalInput(MediaFolder),
     UrlInput("https://v/1")}

\* what ydl.extract_info returns for a URL, with the predicted extension
UrlInfo(u) ==
    [title |-> "vid", id |-> "id1", ext |-> ".webm", upload_date |-> "20240131",
     uploader |-> "author"]

\* number of elements of args.inputs
MaxInputs == 2

\* mutation of IsLocalFile: an existing media file is local whatever its name
\* starts with
IsLocalFile_NoPrefixTest(files, input) ==
    IF Exists(files, input.path)
    THEN LowerExt(input.path.ext) \in SUPPORTED_MEDIA_FORMATS
    ELSE FALSE

\* V2T.is_local_file
IsLocalFile(files, input) ==
    IF input.urlish THEN FALSE
    ELSE IF Exists(files, input.path)
         THEN LowerExt(input.path.ext) \in SUPPORTED_MEDIA_FORMATS
         ELSE FALSE

\* V2T.is_local_folder
IsLocalFolder(input) ==
    IF input.urlish THEN FALSE ELSE input.path \in ExistingDirs

\* glob("*<ext>") and glob("*<ext.upper()>") for the supported extensions
GlobMatches(ext) ==
    \/ ext \in SUPPORTED_MEDIA_FORMATS
    \/ ext \in {".MP4", ".MKV", ".AVI", ".MOV", ".MP3", ".WAV", ".FLAC", ".M4A"}

\* V2T.scan_folder: glob (top level) or rglob (all levels) over the supported
\* extensions and their upper-case forms, then sorted(set(...))
ScanFolder(files, folder, recursive) ==
    IF folder \notin ExistingDirs THEN <<>>
    ELSE SelectSeq(SortedCallerFiles,
                   LAMBDA p : /\ Exists(files, p)
                              /\ \/ p.dir = folder.dir
                                 \/ recursive /\ ParentDir(p.dir) = folder.dir
                              /\ GlobMatches(p.ext))

\* getattr(self.args, "recursive", False)
Recursive(a) == IF "recursive" \in DOMAIN a THEN a.recursive ELSE FALSE

\* os.path.isfile(input_arg) and Path(input_arg).suffix.lower() == ".txt"
IsListFile(files, input) ==
    Exists(files, input.path) /\ LowerExt(input.path.ext) = ".txt"

\* the three-way test applied to an argument and to each line of a list file:
\* <<local_files, urls>> extended by one entry
ClassifyEntry(files, entry, recursive, locals, remotes) ==
    IF IsLocalFile(files, entry)
    THEN <<Append(locals, entry.path), remotes>>
    ELSE IF IsLocalFolder(entry)
         THEN <<locals \o ScanFolder(files, entry.path, recursive), remotes>>
         ELSE <<locals, Append(remotes, entry.url)>>

\* the lines of one list file, in order
RECURSIVE ClassifyLines(_, _, _, _, _)
ClassifyLines(files, lines, recursive, locals, remotes) ==
    IF lines = <<>> THEN <<locals, remotes>>
    ELSE LET c == ClassifyEntry(files, Head(lines), recursive, locals, remotes)
         IN ClassifyLines(files, Tail(lines), recursive, c[1], c[2])

\* the classification loop of _run_internal: <<local_files, urls>>
RECURSIVE Classify(_, _, _, _, _)
Classify(files, inputs, recursive, locals, remotes) ==
    IF inputs = <<>> THEN <<locals, remotes>>
    ELSE LET input_arg == Head(inputs)
             c == IF IsListFile(files, input_arg)
                  THEN ClassifyLines(files, FileLines(input_arg.path), recursive,
                                     locals, remotes)
                  ELSE ClassifyEntry(files, input_arg, recursive, locals, remotes)
         IN Classify(files, Tail(inputs), recursive, c[1], c[2])

\* outcomes of one ffmpeg invocation: exit status 0 with the output written
\* ("ok") or not written ("no_output"), a non-zero exit status without or with
\* a partial output, or subprocess.run raising
FfmpegOutcomes == {"ok", "nonzero", "nonzero_partial", "no_output", "raises"}

\* mutation of TempAudioPath: the audio is extracted next to the source
TempAudioPath_NextToSource(source_path) ==
    Path(source_path.dir, source_path.stem \o <<"_extracted">>, ".mp3")

\* self.temp_dir / f"{original_stem}_extracted.mp3"
TempAudioPath(source_path) ==
    Path(TEMP_DIR, source_path.stem \o <<"_extracted">>, ".mp3")

\* mutation of ProcessLocalFile: the exit status of ffmpeg is not looked at,
\* only whether the output file exists
ProcessLocalFile_IgnoreExit(files, source_path, ff) ==
    LET suffix == LowerExt(source_path.ext)
        temp_audio_path == TempAudioPath(source_path)
    IN IF suffix \in {".mp3", ".wav", ".flac", ".m4a"}
       THEN [audio |-> <<source_path>>, fs |-> files, ffmpeg |-> 0, created |-> {}]
       ELSE IF suffix \in SUPPORTED_VIDEO_FORMATS
            THEN CASE ff = "ok" ->
                        [audio |-> <<temp_audio_path>>, fs |-> WriteFile(files, temp_audio_path),
                         ffmpeg |-> 1, created |-> {temp_audio_path}]
                   [] ff \in {"nonzero", "raises"} ->
                        [audio |-> <<>>, fs |-> files, ffmpeg |-> 1, created |-> {}]
                   [] ff = "nonzero_partial" ->
                        [audio |-> <<temp_audio_path>>, fs |-> WriteFile(files, temp_audio_path),
                         ffmpeg |-> 1, created |-> {temp_audio_path}]
                   [] ff = "no_output" ->
                        [audio |-> IF Exists(files, temp_audio_path)
                                   THEN <<temp_audio_path>> ELSE <<>>,
                         fs |-> files, ffmpeg |-> 1, created |-> {}]
            ELSE [audio |-> <<>>, fs |-> files, ffmpeg |-> 0, created |-> {}]

\* V2T.process_local_file: audio is <<path>> or <<>> (None)
ProcessLocalFile(files, source_path, ff) ==
    LET suffix == LowerExt(source_path.ext)
        temp_audio_path == TempAudioPath(source_path)
    IN IF suffix \in {".mp3", ".wav", ".flac", ".m4a"}
       THEN [audio |-> <<source_path>>, fs |-> files, ffmpeg |-> 0, created |-> {}]
       ELSE IF suffix \in SUPPORTED_VIDEO_FORMATS
            THEN CASE ff = "ok" ->
                        [audio |-> <<temp_audio_path>>, fs |-> WriteFile(files, temp_audio_path),
                         ffmpeg |-> 1, created |-> {temp_audio_path}]
                   [] ff \in {"nonzero", "raises"} ->
                        [audio |-> <<>>, fs |-> files, ffmpeg |-> 1, created |-> {}]
                   [] ff = "nonzero_partial" ->
                        [audio |-> <<>>, fs |-> WriteFile(files, temp_audio_path),
                         ffmpeg |-> 1, created |-> {temp_audio_path}]
                   [] ff = "no_output" ->
                        [audio |-> IF Exists(files, temp_audio_path)
                                   THEN <<temp_audio_path>> ELSE <<>>,
                         fs |-> files, ffmpeg |-> 1, created |-> {}]
            ELSE [audio |-> <<>>, fs |-> files, ffmpeg |-> 0, created |-> {}]

\* mutation of ExtractAudioFfmpeg: the downloaded original is kept after a
\* successful transcode
ExtractAudioFfmpeg_KeepOriginal(files, input_path, ff) ==
    LET output_path == WithSuffix(input_path, ".mp3")
    IN IF LowerExt(input_path.ext) = ".mp3" /\ input_path = output_path
       THEN [audio |-> <<input_path>>, fs |-> files, ffmpeg |-> 0, created |-> {}]
       ELSE CASE ff = "ok" ->
                   [audio |-> <<output_path>>, fs |-> WriteFile(files, output_path),
                    ffmpeg |-> 1, created |-> {output_path}]
              [] ff \in {"nonzero", "raises"} ->
                   [audio |-> <<>>, fs |-> files, ffmpeg |-> 1, created |-> {}]
              [] ff = "nonzero_partial" ->
                   [audio |-> <<>>, fs |-> WriteFile(files, output_path),
                    ffmpeg |-> 1, created |-> {output_path}]
              [] ff = "no_output" ->
                   IF Exists(files, output_path)
                   THEN [audio |-> <<output_path>>, fs |-> files, ffmpeg |-> 1,
                         created |-> {}]
                   ELSE [audio |-> <<>>, fs |-> files, ffmpeg |-> 1, created |-> {}]

\* V2T._extract_audio_ffmpeg
ExtractAudioFfmpeg(files, input_path, ff) ==
    LET output_path == WithSuffix(input_path, ".mp3")
    IN IF LowerExt(input_path.ext) = ".mp3" /\ input_path = output_path
       THEN [audio |-> <<input_path>>, fs |-> files, ffmpeg |-> 0, created |-> {}]
       ELSE CASE ff = "ok" ->
                   [audio |-> <<output_path>>,
                    fs |-> IF input_path # output_path
                           THEN RemoveFile(WriteFile(files, output_path), input_path)
                           ELSE WriteFile(files, output_path),
                    ffmpeg |-> 1, created |-> {output_path}]
              [] ff \in {"nonzero", "raises"} ->
                   [audio |-> <<>>, fs |-> files, ffmpeg |-> 1, created |-> {}]
              [] ff = "nonzero_partial" ->
                   [audio |-> <<>>, fs |-> WriteFile(files, output_path),
                    ffmpeg |-> 1, created |-> {output_path}]
              [] ff = "no_output" ->
                   IF Exists(files, output_path)
                   THEN [audio |-> <<output_path>>,
                         fs |-> IF input_path # output_path
                                THEN RemoveFile(files, input_path) ELSE files,
                         ffmpeg |-> 1, created |-> {}]
                   ELSE [audio |-> <<>>, fs |-> files, ffmpeg |-> 1, created |-> {}]

(***************************************************************************)
(* V2T.download_audio                                                      *)
(***************************************************************************)
\* mutation of FormatPreference: absolute worst tried before the muxed alternative
FormatPreference_WorstSecond == <<"bestaudio", "worst", "worstvideo*+bestaudio">>

\* "format": "bestaudio/worstvideo*+bestaudio/worst", alternatives in order
FormatPreference == <<"bestaudio", "worstvideo*+bestaudio", "worst">>
FormatAlternatives == {"bestaudio", "worstvideo*+bestaudio", "worst"}

\* the downloader takes the first alternative of the chain the source can
\* serve; "none" when it can serve none (the download fails)
SelectFormat(avail) ==
    LET usable == {i \in 1..Len(FormatPreference) : FormatPreference[i] \in avail}
    IN IF usable = {} THEN "none" ELSE FormatPreference[MinOf(usable)]

\* mutation of CANDIDATE_EXTS: the list is tried from its other end
CANDIDATE_EXTS_Reversed == <<".mp3", ".opus", ".m4a", ".mp4", ".webm", ".mkv">>

\* for ext in (".mkv", ".webm", ".mp4", ".m4a", ".opus", ".mp3")
CANDIDATE_EXTS == <<".mkv", ".webm", ".mp4", ".m4a", ".opus", ".mp3">>

\* what the downloader leaves in temp_audio: a file "<title>_<id><ext>" with
\* one of these extensions, nothing ("nothing"), or it raises ("error")
DownloadOutcomes == {"error", "nothing", ".webm", ".mkv", ".mp3", ".ogg"}

\* the file lookup after the download: the set of files download_audio may
\* settle on (more than one only for the glob, whose order is arbitrary),
\* empty when FileNotFoundError is raised
LocateDownloaded(files, predicted, id) ==
    IF Exists(files, predicted) THEN {predicted}
    ELSE LET hits == {i \in 1..Len(CANDIDATE_EXTS) :
                         Exists(files, WithSuffix(predicted, CANDIDATE_EXTS[i]))}
         IN IF hits # {} THEN {WithSuffix(predicted, CANDIDATE_EXTS[MinOf(hits)])}
            ELSE {f.path : f \in {g \in files :
                                     /\ g.path.dir = TEMP_DIR
                                     /\ \E k \in 1..Len(g.path.stem) : g.path.stem[k] = id}}

DownloadFailed(files, fmt, created) ==
    [audio |-> <<>>, fs |-> files, ffmpeg |-> 0, created |-> created, format |-> fmt,
     found |-> NoPath]

\* V2T.download_audio: the set of possible results for one URL
DownloadAudio(files, url, avail, dl, ff) ==
    LET info == UrlInfo(url)
        fmt == SelectFormat(avail)
        predicted == Path(TEMP_DIR, <<info.title, info.id>>, info.ext)
    IN IF fmt = "none" \/ dl = "error" THEN {DownloadFailed(files, fmt, {})}
       ELSE LET written == IF dl = "nothing" THEN {} ELSE {WithSuffix(predicted, dl)}
                fs1 == IF dl = "nothing" THEN files
                       ELSE WriteFile(files, WithSuffix(predicted, dl))
                located == LocateDownloaded(fs1, predicted, info.id)
            IN IF located = {} THEN {DownloadFailed(fs1, fmt, written)}
               ELSE {LET x == ExtractAudioFfmpeg(fs1, downloaded_file, ff)
                     IN [audio |-> x.audio, fs |-> x.fs, ffmpeg |-> x.ffmpeg,
                         created |-> written \cup x.created, format |-> fmt,
                         found |-> downloaded_file] : downloaded_file \in located}

(***************************************************************************)
(* Transcriber engines and writers, as far as V2T.run observes them        *)
(***************************************************************************)
\* what the backend inference call does for one audio file
BackendOutcomes == {"segments", "empty", "error"}

\* WhisperEngine.transcribe / FunASREngine.transcribe: "segments" (non-empty
\* list), "empty" ([]) or "raise" (the exception leaves transcribe)
Transcribe(engine, backend) ==
    IF engine = "funasr"
    THEN (IF backend = "error" THEN "empty" ELSE backend)
    ELSE (IF backend = "error" THEN "raise" ELSE backend)

\* V2T.sanitize_filename on one name part
SanitizeFilename(name) ==
    CASE name = "a/b" -> "a_b" [] name = " vid " -> "vid" [] OTHER -> name

\* the txt / srt files written for one input
OutputPaths(stem, format) ==
    (IF format \in {"txt", "all"} THEN {Path(OUTPUT_DIR, stem, ".txt")} ELSE {})
        \cup (IF format \in {"srt", "all"} THEN {Path(OUTPUT_DIR, stem, ".srt")} ELSE {})

\* output name of a local file: the sanitized original stem
LocalOutputStem(source_path) ==
    [k \in 1..Len(source_path.stem) |-> SanitizeFilename(source_path.stem[k])]

\* YYYYMMDD to YYYY-MM-DD
DatePart(upload_date) == IF upload_date = "20240131" THEN "2024-01-31" ELSE ""

\* output name of a URL: {date}_{author}_{title}_{video_id}, empty parts left out
UrlOutputStem(info) ==
    SelectSeq(<<DatePart(info.upload_date), SanitizeFilename(info.uploader),
                SanitizeFilename(info.title), info.id>>,
              LAMBDA part : part # "")

RECURSIVE WriteFiles(_, _)
WriteFiles(files, paths) ==
    IF paths = {} THEN files
    ELSE LET q == CHOOSE x \in paths : TRUE
         IN WriteFiles(WriteFile(files, q), paths \ {q})

(***************************************************************************)
(* V2T.__init__, V2T.run, V2T.cleanup                                      *)
(*                                                                         *)
(* pc: "start" -> Construct -> "constructed" | "init_failed"               *)
(*     "constructed" -> RunBegin -> "local_loop" | "url_loop" | "finally"  *)
(*                                  | "raising" (FFmpegError)              *)
(*     "local_loop" -> ProcessLocal ..., "url_loop" -> ProcessUrl ...      *)
(*     "finally" | "raising" -> RunFinally -> "done" | "raised"            *)
(*     "init_failed" -> Del -> "collected"                                 *)
(*                                                                         *)
(* SpecDownload exercises download_audio alone: "download" -> Download ->  *)
(* "downloaded", over temp directories holding stale files.                *)
(***************************************************************************)
BuilderIdle ==
    /\ bpc = "idle"
    /\ model_type = "none"
    /\ raw = <<>>
    /\ segments = <<>>

\* no loop iteration has run yet
NoTask ==
    [kind |-> "none", source |-> NoPath, url |-> "", found |-> NoPath, ffmpeg |-> 0,
     ff |-> "none", audio |-> <<>>, backend |-> "not_called",
     raised |-> FALSE, created |-> {}, outputs |-> {}, removed |-> {}, rm |-> "no"]

ArgsUniverse ==
    [inputs : SeqsUpTo(InputUniverse, MaxInputs) \ {<<>>},
     engine : {"whisper", "funasr"},
     keep_audio : BOOLEAN,
     format : {"txt", "srt", "all"},
     cookies : BOOLEAN]

\* the state before V2T(args) is called: the caller's files exist
Init ==
    /\ BuilderIdle
    /\ pc = "start"
    /\ args \in ArgsUniverse
    /\ fs = {[path |-> q, by |-> "caller"] :
                q \in CallerFiles \cup (IF args.cookies THEN {CookiesTxt} ELSE {})}
    /\ obj = [cookies_file |-> NoPath, temp_cookie_file |-> NoPath, error |-> ""]
    /\ local_files = <<>>
    /\ urls = <<>>
    /\ li = 0
    /\ ui = 0
    /\ last = NoTask
    /\ results = <<>>

\* V2T.__init__: the cookie copy, then the engine (import and model load)
Construct ==
    /\ pc = "start"
    /\ \E copy \in {"ok", "mkstemp_fails", "copy_fails"}, backend_ok \in BOOLEAN :
          LET has_cookies == args.cookies /\ Exists(fs, CookiesTxt)
              fs1 == IF has_cookies /\ copy \in {"ok", "copy_fails"}
                     THEN WriteFile(fs, TempCookie) ELSE fs
              cookies_file == IF ~has_cookies THEN NoPath
                              ELSE IF copy = "ok" THEN TempCookie ELSE CookiesTxt
              temp_cookie_file == IF has_cookies /\ copy = "ok" THEN TempCookie ELSE NoPath
          IN /\ fs' = fs1
             /\ obj' = [cookies_file |-> cookies_file, temp_cookie_file |-> temp_cookie_file,
                        error |-> IF backend_ok THEN "" ELSE "backend"]
             /\ pc' = IF backend_ok THEN "constructed" ELSE "init_failed"
    /\ UNCHANGED <<args, local_files, urls, li, ui, last>>
    /\ UNCHANGED <<bvars, results>>

\* outcomes of os.remove: the file is removed, or OSError is raised
RemoveOutcomes == {"ok", "fails"}

\* mutation of Cleanup: a failed removal of the cookie copy leaves cleanup as
\* an exception
Cleanup_Escalates(files, o, rm) ==
    IF o.temp_cookie_file # NoPath /\ Exists(files, o.temp_cookie_file)
    THEN IF rm = "ok"
         THEN [fs |-> RemoveFile(files, o.temp_cookie_file),
               obj |-> [o EXCEPT !.temp_cookie_file = NoPath], raised |-> FALSE]
         ELSE [fs |-> files, obj |-> o, raised |-> TRUE]
    ELSE [fs |-> files, obj |-> o, raised |-> FALSE]

\* V2T.cleanup: the temporary cookie copy is removed; a failing os.remove is
\* logged.  raised tells whether an exception leaves cleanup.
Cleanup(files, o, rm) ==
    IF o.temp_cookie_file # NoPath /\ Exists(files, o.temp_cookie_file)
    THEN IF rm = "ok"
         THEN [fs |-> RemoveFile(files, o.temp_cookie_file),
               obj |-> [o EXCEPT !.temp_cookie_file = NoPath], raised |-> FALSE]
         ELSE [fs |-> files, obj |-> o, raised |-> FALSE]
    ELSE [fs |-> files, obj |-> o, raised |-> FALSE]

\* what may become of the audio after the writing: "no" when the loop body
\* does not attempt to remove it, otherwise an outcome of os.remove
RemoveChoices(attempt) == IF attempt THEN RemoveOutcomes ELSE {"no"}

\* the outcomes of the os.remove that cleanup may attempt
CleanupOutcomes(files, o) ==
    IF o.temp_cookie_file # NoPath /\ Exists(files, o.temp_cookie_file)
    THEN RemoveOutcomes ELSE {"ok"}

\* V2T.__del__ of the object whose __init__ raised
Del ==
    /\ pc = "init_failed"
    /\ \E rm \in CleanupOutcomes(fs, obj) :
          /\ fs' = Cleanup(fs, obj, rm).fs
          /\ obj' = Cleanup(fs, obj, rm).obj
    /\ pc' = "collected"
    /\ UNCHANGED <<args, local_files, urls, li, ui, last>>
    /\ UNCHANGED <<bvars, results>>

\* where _run_internal continues when local index i and url index u are next
LoopPc(locals, remotes, i, u) ==
    IF i <= Len(locals) THEN "local_loop"
    ELSE IF u <= Len(remotes) THEN "url_loop"
    ELSE "finally"

\* mutation of RunBegin: the inputs are classified before ffmpeg is checked
RunBegin_ClassifyFirst ==
    /\ pc = "constructed"
    /\ \E ffmpeg_installed \in BOOLEAN :
          LET c == Classify(fs, args.inputs, Recursive(args), <<>>, <<>>)
          IN /\ local_files' = c[1]
             /\ urls' = c[2]
             /\ li' = 1
             /\ ui' = 1
             /\ IF ~ffmpeg_installed
                THEN /\ obj' = [obj EXCEPT !.error = "ffmpeg"]
                     /\ pc' = "raising"
                ELSE /\ pc' = LoopPc(c[1], c[2], 1, 1)
                     /\ UNCHANGED obj
    /\ UNCHANGED <<args, fs, last>>
    /\ UNCHANGED <<bvars, results>>

\* V2T.run -> _run_internal: check_ffmpeg, then the classification of args.inputs
RunBegin ==
    /\ pc = "constructed"
    /\ \E ffmpeg_installed \in BOOLEAN :
          IF ~ffmpeg_installed
          THEN /\ obj' = [obj EXCEPT !.error = "ffmpeg"]
               /\ pc' = "raising"
               /\ UNCHANGED <<local_files, urls, li, ui>>
          ELSE LET c == Classify(fs, args.inputs, Recursive(args), <<>>, <<>>)
               IN /\ local_files' = c[1]
                  /\ urls' = c[2]
                  /\ li' = 1
                  /\ ui' = 1
                  /\ pc' = LoopPc(c[1], c[2], 1, 1)
                  /\ UNCHANGED obj
    /\ UNCHANGED <<args, fs, last>>
    /\ UNCHANGED <<bvars, results>>

\* mutation of AfterAcquire: the removal of the audio is put off, the next
\* input is started with the file still there
AfterAcquire_DeferredCleanup(files, task, audio_path, backend, out_stem, remove) ==
    LET result == Transcribe(args.engine, backend)
    IN IF result = "raise"
       THEN [fs |-> files, last |-> [task EXCEPT !.backend = backend, !.raised = TRUE],
             raised |-> TRUE]
       ELSE LET outs == IF result = "segments" THEN OutputPaths(out_stem, args.format)
                        ELSE {}
                fs2 == WriteFiles(files, outs)
            IN [fs |-> fs2,
                last |-> [task EXCEPT !.backend = backend, !.outputs = outs,
                                      !.removed = IF remove = "ok" THEN {audio_path} ELSE {},
                                      !.rm = remove],
                raised |-> FALSE]

\* the loop body after the acquisition, shared by both loops: transcribe,
\* write the outputs when segments came back, remove the audio when asked to.
\* Yields [fs, last, raised]; task is the record of the acquisition.
AfterAcquire(files, task, audio_path, backend, out_stem, remove) ==
    LET result == Transcribe(args.engine, backend)
    IN IF result = "raise"
       THEN [fs |-> files, last |-> [task EXCEPT !.backend = backend, !.raised = TRUE],
             raised |-> TRUE]
       ELSE LET outs == IF result = "segments" THEN OutputPaths(out_stem, args.format)
                        ELSE {}
                fs2 == WriteFiles(files, outs)
            IN [fs |-> IF remove = "ok" THEN RemoveFile(fs2, audio_path) ELSE fs2,
                last |-> [task EXCEPT !.backend = backend, !.outputs = outs,
                                      !.removed = IF remove = "ok" THEN {audio_path} ELSE {},
                                      !.rm = remove],
                raised |-> FALSE]

\* one iteration of "for file_path in local_files"
ProcessLocal ==
    /\ pc = "local_loop"
    /\ li <= Len(local_files)
    /\ LET file_path == local_files[li]
           is_video == LowerExt(file_path.ext) \in SUPPORTED_VIDEO_FORMATS
       IN \E ff \in (IF is_video THEN FfmpegOutcomes ELSE {"ok"}) :
             LET r == ProcessLocalFile(fs, file_path, ff)
                 task == [NoTask EXCEPT !.kind = "local", !.source = file_path,
                                        !.ffmpeg = r.ffmpeg, !.audio = r.audio,
                                        !.ff = IF r.ffmpeg = 0 THEN "none" ELSE ff,
                                        !.created = r.created]
             IN IF r.audio = <<>>
                THEN /\ fs' = r.fs
                     /\ last' = task
                     /\ li' = li + 1
                     /\ pc' = LoopPc(local_files, urls, li + 1, ui)
                ELSE \E backend \in BackendOutcomes,
                        remove \in RemoveChoices(is_video /\ ~args.keep_audio) :
                        LET x == AfterAcquire(r.fs, task, r.audio[1], backend,
                                              LocalOutputStem(file_path), remove)
                        IN /\ fs' = x.fs
                           /\ last' = x.last
                           /\ li' = IF x.raised THEN li ELSE li + 1
                           /\ pc' = IF x.raised THEN "raising"
                                     ELSE LoopPc(local_files, urls, li + 1, ui)
    /\ UNCHANGED <<args, obj, local_files, urls, ui>>
    /\ UNCHANGED <<bvars, results>>

\* one iteration of "for url in urls".  Which alternative the source serves
\* does not show here, only whether it serves one (SpecDownload looks closer).
ProcessUrl ==
    /\ pc = "url_loop"
    /\ ui <= Len(urls)
    /\ \E avail \in {{}, FormatAlternatives}, dl \in DownloadOutcomes :
          \E ff \in (IF avail = {} \/ dl = "error" THEN {"ok"} ELSE FfmpegOutcomes) :
             \E r \in DownloadAudio(fs, urls[ui], avail, dl, ff) :
                LET task == [NoTask EXCEPT !.kind = "url", !.url = urls[ui],
                                           !.found = r.found, !.ffmpeg = r.ffmpeg,
                                           !.ff = IF r.ffmpeg = 0 THEN "none" ELSE ff,
                                           !.audio = r.audio, !.created = r.created]
                IN IF r.audio = <<>>
                   THEN /\ fs' = r.fs
                        /\ last' = task
                        /\ ui' = ui + 1
                        /\ pc' = LoopPc(local_files, urls, li, ui + 1)
                   ELSE \E backend \in BackendOutcomes,
                           remove \in RemoveChoices(~args.keep_audio) :
                           LET x == AfterAcquire(r.fs, task, r.audio[1], backend,
                                                 UrlOutputStem(UrlInfo(urls[ui])), remove)
                           IN /\ fs' = x.fs
                              /\ last' = x.last
                              /\ ui' = IF x.raised THEN ui ELSE ui + 1
                              /\ pc' = IF x.raised THEN "raising"
                                        ELSE LoopPc(local_files, urls, li, ui + 1)
    /\ UNCHANGED <<args, obj, local_files, urls, li>>
    /\ UNCHANGED <<bvars, results>>

\* the finally clause of V2T.run: cleanup, then return or re-raise
RunFinally ==
    /\ pc \in {"finally", "raising"}
    /\ \E rm \in CleanupOutcomes(fs, obj) :
          LET c == Cleanup(fs, obj, rm)
          IN /\ fs' = c.fs
             /\ obj' = c.obj
             /\ pc' = IF pc = "raising" \/ c.raised THEN "raised" ELSE "done"
    /\ UNCHANGED <<args, local_files, urls, li, ui, last>>
    /\ UNCHANGED <<bvars, results>>

\* files an earlier download of the same URL may have left in temp_audio
StaleFiles ==
    {Path(TEMP_DIR, <<"vid", "id1">>, ".webm"), Path(TEMP_DIR, <<"vid", "id1">>, ".mp3"),
     Path(TEMP_DIR, <<"vid", "id1">>, ".m4a"), Path(TEMP_DIR, <<"old", "id1">>, ".part")}

DownloadInit ==
    /\ BuilderIdle
    /\ pc = "download"
    /\ args = [url |-> "https://v/1"]
    /\ fs \in {{[path |-> q, by |-> "caller"] : q \in stale} : stale \in SUBSET StaleFiles}
    /\ obj = <<>>
    /\ local_files = <<>>
    /\ urls = <<>>
    /\ li = 0
    /\ ui = 0
    /\ last = <<>>
    /\ results = <<>>

\* one call of V2T.download_audio; last keeps what the downloader was offered
\* and what the call chose and returned
Download ==
    /\ pc = "download"
    /\ \E avail \in SUBSET FormatAlternatives, dl \in DownloadOutcomes, ff \in FfmpegOutcomes :
          \E r \in DownloadAudio(fs, args.url, avail, dl, ff) :
             /\ fs' = r.fs
             /\ last' = [avail |-> avail, dl |-> dl, ff |-> ff, format |-> r.format,
                         found |-> r.found, ffmpeg |-> r.ffmpeg, audio |-> r.audio,
                         created |-> r.created, before |-> fs]
    /\ pc' = "downloaded"
    /\ UNCHANGED <<args, obj, local_files, urls, li, ui>>
    /\ UNCHANGED <<bvars, results>>

DownloadNext == Download

SpecDownload == DownloadInit /\ [][DownloadNext]_vars

(***************************************************************************)
(* SpecInputs exercises the input classification, scan_folder and          *)
(* process_local_file on their own, over a working directory holding       *)
(* AllFiles: "inputs" -> ClassifyInputs -> "classified"                    *)
(*           "inputs" -> ScanFolderCall -> "scanned"                       *)
(*           "inputs" -> ProcessLocalFileCall -> "acquired"                *)
(***************************************************************************)
InputNames ==
    {LocalInput(ClipVideo), LocalInput(LoudVideo), LocalInput(MemoVideo),
     NamedInput(NotesDoc, "media/notes.doc"), NamedInput(MissingVideo, "media/gone.mp4"),
     LocalInput(MediaFolder), LocalInput(EmptyFolder), UrlInput("https://v/1"),
     UrlishInput(WwwVideo, "www.clip.mp4"), NamedInput(UrlList, "urls.txt"),
     UrlishInput(WwwList, "www.list.TXT")}

InputsInit ==
    /\ BuilderIdle
    /\ pc = "inputs"
    /\ args \in [inputs : SeqsUpTo(InputNames, MaxInputs) \ {<<>>}, recursive : BOOLEAN]
    /\ fs = {[path |-> q, by |-> "caller"] : q \in AllFiles}
    /\ obj = <<>>
    /\ local_files = <<>>
    /\ urls = <<>>
    /\ li = 0
    /\ ui = 0
    /\ last = <<>>
    /\ results = <<>>

\* the classification loop of _run_internal on args.inputs
ClassifyInputs ==
    /\ pc = "inputs"
    /\ LET c == Classify(fs, args.inputs, Recursive(args), <<>>, <<>>)
       IN /\ local_files' = c[1]
          /\ urls' = c[2]
    /\ pc' = "classified"
    /\ UNCHANGED <<args, fs, obj, li, ui, last>>
    /\ UNCHANGED <<bvars, results>>

\* one call of V2T.scan_folder; the result is kept in local_files
ScanFolderCall ==
    /\ pc = "inputs"
    /\ \E folder \in {MediaFolder, SubFolder, EmptyFolder, MissingFolder} :
          /\ local_files' = ScanFolder(fs, folder, Recursive(args))
          /\ last' = [folder |-> folder, recursive |-> Recursive(args)]
    /\ pc' = "scanned"
    /\ UNCHANGED <<args, fs, obj, urls, li, ui>>
    /\ UNCHANGED <<bvars, results>>

\* one call of V2T.process_local_file on any path the caller may name
ProcessLocalFileCall ==
    /\ pc = "inputs"
    /\ \E source_path \in AllFiles, ff \in FfmpegOutcomes :
          LET r == ProcessLocalFile(fs, source_path, ff)
          IN /\ fs' = r.fs
             /\ last' = [source |-> source_path, ff |-> ff, audio |-> r.audio,
                         ffmpeg |-> r.ffmpeg, created |-> r.created, before |-> fs]
    /\ pc' = "acquired"
    /\ UNCHANGED <<args, obj, local_files, urls, li, ui>>
    /\ UNCHANGED <<bvars, results>>

InputsNext == ClassifyInputs \/ ScanFolderCall \/ ProcessLocalFileCall

SpecInputs == InputsInit /\ [][InputsNext]_vars

(***************************************************************************)
(* run_v2t_batch of webui.py (SpecBatch): one V2T object per URL           *)
(*   "batch" -> BatchBegin -> "batch_loop" | "batch_rejected"              *)
(*   "batch_loop" -> BatchStep ... -> "batch_summary"                      *)
(*   "batch_summary" -> BatchSummary -> "batch_done"                       *)
(***************************************************************************)
\* number of lines of the URL text box
MaxUrls == 3
BatchUrls == {"https://v/1", "https://v/2", "https://v/3"}

\* parse_urls: the lines in order, later duplicates dropped
RECURSIVE ParseUrls(_, _)
ParseUrls(lines, unique_urls) ==
    IF lines = <<>> THEN unique_urls
    ELSE IF \E k \in 1..Len(unique_urls) : unique_urls[k] = Head(lines)
         THEN ParseUrls(Tail(lines), unique_urls)
         ELSE ParseUrls(Tail(lines), Append(unique_urls, Head(lines)))

\* mutation of NamespaceFields: the URL is passed as inputs
NamespaceFields_WithInputs ==
    {"inputs", "engine", "model", "language", "task", "output", "device", "keep_audio",
     "format", "cookies", "hotwords"}

\* the attributes of the SimpleNamespace handed to V2T
NamespaceFields ==
    {"urls", "engine", "model", "language", "task", "output", "device", "keep_audio",
     "format", "cookies", "hotwords"}

\* sum(1 for r in results if r[1] == "success")
RECURSIVE SuccessCount(_)
SuccessCount(rs) ==
    IF rs = <<>> THEN 0
    ELSE (IF Head(rs).status = "success" THEN 1 ELSE 0) + SuccessCount(Tail(rs))

BatchInit ==
    /\ BuilderIdle
    /\ pc = "batch"
    /\ args \in [urls_text : SeqsUpTo(BatchUrls, MaxUrls),
                  engine : {"whisper", "funasr"},
                  keep_audio : BOOLEAN,
                  format : {"txt"}]
    /\ fs = {}
    /\ obj = <<>>
    /\ local_files = <<>>
    /\ urls = <<>>
    /\ li = 0
    /\ ui = 0
    /\ last = NoTask
    /\ results = <<>>

\* urls = parse_urls(...); an empty list is rejected
BatchBegin ==
    /\ pc = "batch"
    /\ urls' = ParseUrls(args.urls_text, <<>>)
    /\ ui' = 1
    /\ pc' = IF urls' = <<>> THEN "batch_rejected" ELSE "batch_loop"
    /\ UNCHANGED <<args, fs, obj, local_files, li, last, results>>
    /\ UNCHANGED bvars

\* V2T(args) and app.run() for one URL, as run_v2t_batch sees them:
\* [fs, last, error], error = "" when neither raised
RunOne(files, url) ==
    {[fs |-> files, last |-> [NoTask EXCEPT !.kind = "url", !.url = url], error |-> e] :
        e \in {"backend", "ffmpeg"}}
    \cup
    (IF "inputs" \notin NamespaceFields
     THEN {[fs |-> files, last |-> [NoTask EXCEPT !.kind = "url", !.url = url],
            error |-> "AttributeError"]}
     ELSE UNION {UNION {UNION {
            LET task == [NoTask EXCEPT !.kind = "url", !.url = url, !.found = r.found,
                                       !.ffmpeg = r.ffmpeg,
                                       !.ff = IF r.ffmpeg = 0 THEN "none" ELSE ff,
                                       !.audio = r.audio, !.created = r.created]
            IN IF r.audio = <<>>
               THEN {[fs |-> r.fs, last |-> task, error |-> ""]}
               ELSE {LET x == AfterAcquire(r.fs, task, r.audio[1], br[1],
                                           UrlOutputStem(UrlInfo(url)), br[2])
                     IN [fs |-> x.fs, last |-> x.last,
                         error |-> IF x.raised THEN "inference" ELSE ""] :
                        br \in BackendOutcomes \X RemoveChoices(~args.keep_audio)} :
            r \in DownloadAudio(files, url, FormatAlternatives, dl, ff)} :
            ff \in FfmpegOutcomes} : dl \in DownloadOutcomes})

\* one iteration of "for idx, url in enumerate(urls, 1)"
BatchStep ==
    /\ pc = "batch_loop"
    /\ ui <= Len(urls)
    /\ \E run \in RunOne(fs, urls[ui]) :
          /\ fs' = run.fs
          /\ last' = run.last
          /\ results' = Append(results,
                               IF run.error = ""
                               THEN [url |-> urls[ui], status |-> "success", message |-> "done"]
                               ELSE [url |-> urls[ui], status |-> "error",
                                     message |-> run.error])
    /\ ui' = ui + 1
    /\ pc' = IF ui + 1 > Len(urls) THEN "batch_summary" ELSE "batch_loop"
    /\ UNCHANGED <<args, obj, local_files, urls, li>>
    /\ UNCHANGED bvars

\* the final counts and the result table
BatchSummary ==
    /\ pc = "batch_summary"
    /\ LET total == Len(urls)
           success_count == SuccessCount(results)
       IN last' = [total |-> total, success_count |-> success_count,
                   fail_count |-> total - success_count,
                   result_table |-> [k \in 1..Len(results) |->
                                       <<results[k].url, results[k].status = "success">>]]
    /\ pc' = "batch_done"
    /\ UNCHANGED <<args, fs, obj, local_files, urls, li, ui, results>>
    /\ UNCHANGED bvars

BatchNext == BatchBegin \/ BatchStep \/ BatchSummary

SpecBatch == BatchInit /\ [][BatchNext]_vars

Next == Construct \/ Del \/ RunBegin \/ ProcessLocal \/ ProcessUrl \/ RunFinally

Spec == Init /\ [][Next]_vars

(***************************************************************************)
(* V2T.format_time, V2T.write_srt and V2T.write_txt: the text written to   *)
(* the output file, as a sequence of characters (SpecWriters)              *)
(***************************************************************************)
\* str(n) for n >= 0
RECURSIVE Decimal(_)
Decimal(n) ==
    LET digits == <<"0", "1", "2", "3", "4", "5", "6", "7", "8", "9">>
    IN IF n < 10 THEN <<digits[n + 1]>> ELSE Decimal(n \div 10) \o <<digits[(n % 10) + 1]>>

\* f"{n:0{width}d}" for n >= 0
ZeroPad(n, width) ==
    LET d == Decimal(n)
    IN [i \in 1..Max(0, width - Len(d)) |-> "0"] \o d

\* format_time(seconds), seconds in microseconds: HH:MM:SS,mmm with the
\* milliseconds truncated
FormatTime(seconds) ==
    LET whole == seconds \div SECOND
        hours == whole \div 3600
        minutes == (whole % 3600) \div 60
        secs == whole % 60
        millis == (seconds - whole * SECOND) \div 1000
    IN ZeroPad(hours, 2) \o <<":">> \o ZeroPad(minutes, 2) \o <<":">> \o ZeroPad(secs, 2)
           \o <<",">> \o ZeroPad(millis, 3)

\* f"{i}\n{start_time} --> {end_time}\n{text}\n\n"
SrtCue(i, segment) ==
    Decimal(i) \o <<"\n">>
        \o FormatTime(segment.start) \o <<" ", "-", "-", ">", " ">> \o FormatTime(segment.end)
        \o <<"\n">> \o Strip(segment.text) \o <<"\n", "\n">>

\* mutation of WriteSrt: enumerate(segments) without start=1
WriteSrt_ZeroBased(segs) == Join([i \in 1..Len(segs) |-> SrtCue(i - 1, segs[i])])

\* write_srt: what is written to output_path
WriteSrt(segs) == Join([i \in 1..Len(segs) |-> SrtCue(i, segs[i])])

\* write_txt: what is written to output_path
WriteTxt(segs) == Join([i \in 1..Len(segs) |-> Strip(segs[i].text) \o <<"\n">>])

\* number of Segments handed to a writer
MaxSegments == 3

\* Segments as the engines return them: a leading space (Whisper), trailing
\* white space, CJK punctuation, and a text that is empty after trimming
SampleSegments ==
    {[start |-> 0, end |-> 1500000, text |-> <<" ", "H", "e", "l", "l", "o", ".">>],
     [start |-> 1500000, end |-> 62250000, text |-> <<"y", "o", " ", "\n">>],
     [start |-> 62250000, end |-> 125999000, text |-> <<"a", " ", "b", "U3002">>],
     [start |-> 2000000000, end |-> 2100500000, text |-> <<" ", " ">>]}

WritersInit ==
    /\ bpc = "segments"
    /\ model_type = "none"
    /\ raw = <<>>
    /\ segments \in SeqsUpTo(SampleSegments, MaxSegments)
    /\ RunIdle

\* V2T.write_srt(segments, output_path); last keeps the file's content
WriteSrtCall ==
    /\ bpc = "segments"
    /\ last' = [writer |-> "srt", content |-> WriteSrt(segments)]
    /\ bpc' = "written"
    /\ UNCHANGED <<model_type, raw, segments>>
    /\ UNCHANGED <<pc, args, fs, obj, local_files, urls, li, ui, results>>

\* V2T.write_txt(segments, output_path); last keeps the file's content
WriteTxtCall ==
    /\ bpc = "segments"
    /\ last' = [writer |-> "txt", content |-> WriteTxt(segments)]
    /\ bpc' = "written"
    /\ UNCHANGED <<model_type, raw, segments>>
    /\ UNCHANGED <<pc, args, fs, obj, local_files, urls, li, ui, results>>

WritersNext == WriteSrtCall \/ WriteTxtCall

SpecWriters == WritersInit /\ [][WritersNext]_vars

(***************************************************************************)
(* Properties of V2T.run (checked under Spec) and of download_audio        *)
(* (checked under SpecDownload)                                            *)
(***************************************************************************)
RunEnded == pc \in {"done", "raised"}

\* C5: with keep_audio = false a run removes only files the pipeline created;
\* every file that existed before the run and was given as a local input still
\* exists, unmodified, after the run.
C5_OriginalsSurvive ==
    (RunEnded /\ ~args.keep_audio) =>
        \A k \in 1..Len(local_files) :
            local_files[k] \in CallerFiles =>
                [path |-> local_files[k], by |-> "caller"] \in fs

\* C6: with keep_audio = false every temporary artifact created for an input
\* (downloaded container, normalized audio, extracted audio) is gone once the
\* handling of that input has ended, on every path; with keep_audio = true the
\* audio handed to the transcriber is not removed.
C6_TempArtifactsRemoved ==
    (pc \in {"local_loop", "url_loop", "finally", "raising", "done", "raised"}
        /\ last.kind # "none") =>
        IF ~args.keep_audio
        THEN \A q \in last.created : ~Exists(fs, q)
        ELSE last.removed = {} /\ \A k \in 1..Len(last.audio) : Exists(fs, last.audio[k])

\* C7: the download takes the format alternatives strictly in the order best
\* pure audio, worst video muxed with best audio, absolute worst, and stops at
\* the first the source serves; without a standalone audio stream absolute
\* worst is chosen only if the muxed alternative is not served either.
C7_FormatFallbackOrder ==
    pc = "downloaded" =>
        /\ "bestaudio" \in last.avail => last.format = "bestaudio"
        /\ ("bestaudio" \notin last.avail /\ "worstvideo*+bestaudio" \in last.avail) =>
               last.format = "worstvideo*+bestaudio"
        /\ last.format = "worst" => last.avail = {"worst"}
        /\ last.format = "none" <=> last.avail = {}

\* a source without standalone audio that serves both other alternatives was
\* downloaded with the muxed one and its audio acquired
C7_Witness ==
    /\ pc = "downloaded"
    /\ last.avail = {"worstvideo*+bestaudio", "worst"}
    /\ last.format = "worstvideo*+bestaudio"
    /\ last.audio # <<>>

\* C8: for every engine an error of the backend inference call yields an empty
\* Segment sequence, does not leave transcribe, and the batch goes on.
C8_BackendErrorIsContained ==
    (pc \in {"local_loop", "url_loop", "finally", "raising", "done", "raised"}
        /\ last.backend = "error") =>
        /\ ~last.raised
        /\ last.outputs = {}
        /\ pc \notin {"raising", "raised"}

\* C9: a failed download, transcoding, file lookup or inference of one input
\* writes no output file for it and the run continues with the next input, so
\* a run that got past its setup ends with every input handled.
C9_FailuresArePerInput ==
    /\ (RunEnded /\ obj.error = "") =>
           /\ li = Len(local_files) + 1
           /\ ui = Len(urls) + 1
    /\ (pc \in {"local_loop", "url_loop", "finally", "raising", "done", "raised"}
           /\ (last.kind # "none") /\ (last.audio = <<>> \/ last.backend = "error")) =>
           last.outputs = {}

\* C10: when ffmpeg is missing or the ASR backend cannot be imported or loaded,
\* no input is classified, downloaded, transcoded or transcribed and no output
\* file is written.
C10_FatalSetupAbortsFirst ==
    (pc \in {"init_failed", "collected", "raising", "raised"}
        /\ obj.error \in {"backend", "ffmpeg"}) =>
        /\ local_files = <<>>
        /\ urls = <<>>
        /\ li = 0
        /\ ui = 0
        /\ last = NoTask
        /\ \A f \in fs : f.by = "pipeline" => f.path = TempCookie

\* a run over a non-empty batch was aborted by the missing ffmpeg
C10_Witness ==
    /\ pc = "raised"
    /\ obj.error = "ffmpeg"
    /\ Len(args.inputs) >= 1

\* C11: every file acquired by download_audio, whatever its container or
\* extension (a download that already has the .mp3 extension included), is
\* passed through the transcode step before its path is returned.
C11_NormalizationMandatory ==
    (pc = "downloaded" /\ last.audio # <<>>) => last.ffmpeg = 1

C26_LookupOrder ==
    (pc = "downloaded" /\ last.format # "none" /\ last.dl # "error") =>
        LET info == UrlInfo(args.url)
            predicted == Path(TEMP_DIR, <<info.title, info.id>>, info.ext)
            present == {f.path : f \in last.before}
                           \cup (IF last.dl = "nothing" THEN {}
                                 ELSE {WithSuffix(predicted, last.dl)})
            order == <<".mkv", ".webm", ".mp4", ".m4a", ".opus", ".mp3">>
            hits == {i \in 1..Len(order) : WithSuffix(predicted, order[i]) \in present}
            byId == {q \in present :
                        /\ q.dir = TEMP_DIR
                        /\ \E k \in 1..Len(q.stem) : q.stem[k] = info.id}
        IN IF predicted \in present THEN last.found = predicted
           ELSE IF hits # {} THEN last.found = WithSuffix(predicted, order[MinOf(hits)])
           ELSE IF byId # {} THEN last.found \in byId
           ELSE last.found = NoPath /\ last.audio = <<>>

\* the predicted file was absent, two candidates of the list existed and the
\* earlier one (.m4a before .mp3) was taken
C26_Witness ==
    /\ pc = "downloaded"
    /\ last.format # "none"
    /\ last.dl = "nothing"
    /\ ~Exists(last.before, Path(TEMP_DIR, <<"vid", "id1">>, ".webm"))
    /\ Exists(last.before, Path(TEMP_DIR, <<"vid", "id1">>, ".m4a"))
    /\ Exists(last.before, Path(TEMP_DIR, <<"vid", "id1">>, ".mp3"))
    /\ last.found = Path(TEMP_DIR, <<"vid", "id1">>, ".m4a")

(***************************************************************************)
(* Properties of the classification, scan_folder and process_local_file    *)
(* (checked under SpecInputs)                                              *)
(***************************************************************************)
\* the class the four ordered rules give one input
RuleClass(files, input) ==
    IF input.urlish THEN "remote"
    ELSE IF Exists(files, input.path)
            /\ LowerExt(input.path.ext) \in SUPPORTED_VIDEO_FORMATS \cup SUPPORTED_AUDIO_FORMATS
         THEN "file"
    ELSE IF input.path \in ExistingDirs THEN "folder"
    ELSE "url"

\* <<local files, URLs>> the four rules give a sequence of inputs
RECURSIVE ByRules(_, _, _)
ByRules(files, inputs, recursive) ==
    IF inputs = <<>> THEN <<(<<>>), <<>>>>
    ELSE LET input == inputs[Len(inputs)]
             before == ByRules(files, SubSeq(inputs, 1, Len(inputs) - 1), recursive)
             class == RuleClass(files, input)
         IN CASE class = "file" -> <<Append(before[1], input.path), before[2]>>
              [] class = "folder" ->
                    <<before[1] \o ScanFolder(files, input.path, recursive), before[2]>>
              [] OTHER -> <<before[1], Append(before[2], input.url)>>

\* the same with rule 0 in front: an existing file with the .txt extension is
\* a list whose lines are classified by the four rules
RECURSIVE ByRulesWithLists(_, _, _)
ByRulesWithLists(files, inputs, recursive) ==
    IF inputs = <<>> THEN <<(<<>>), <<>>>>
    ELSE LET input == inputs[Len(inputs)]
             before == ByRulesWithLists(files, SubSeq(inputs, 1, Len(inputs) - 1), recursive)
             own == IF Exists(files, input.path) /\ LowerExt(input.path.ext) = ".txt"
                    THEN ByRules(files, FileLines(input.path), recursive)
                    ELSE ByRules(files, <<input>>, recursive)
         IN <<before[1] \o own[1], before[2] \o own[2]>>

\* C13 as stated: every input falls in exactly one of the four classes, first
\* match wins: URL prefix -> remote (even if a file of that name exists),
\* existing file with a supported extension (case-insensitive) -> local file,
\* existing directory -> expanded, otherwise -> URL.
C13_FourRuleClassification ==
    pc = "classified" =>
        <<local_files, urls>> = ByRules(fs, args.inputs, Recursive(args))

\* C13 amended: an argument that is an existing file with the extension .txt
\* (case-insensitive) is first read as a list, whatever its name starts with;
\* every other argument and every non-empty line of a list falls in exactly
\* one of the four classes, first match wins (a .txt named inside a list is
\* not expanded again).
C13_ListFilesThenFourRules ==
    pc = "classified" =>
        <<local_files, urls>> = ByRulesWithLists(fs, args.inputs, Recursive(args))

\* an existing media file named like a URL went to the URLs, and a list file
\* was expanded into a local file, a scanned folder and two URLs
C13_Witness ==
    /\ pc = "classified"
    /\ args.inputs = <<UrlishInput(WwwVideo, "www.clip.mp4"), NamedInput(UrlList, "urls.txt")>>
    /\ local_files = <<MemoVideo, SubClip>>
    /\ urls = <<"www.clip.mp4", "https://v/2", "urls.txt">>

\* C14: process_local_file by suffix class: an audio suffix returns the file
\* as it is without the transcoder; a video suffix runs the transcoder once
\* into a file inside the temp directory distinct from the source; any other
\* suffix fails at once without the transcoder.
C14_LocalAcquisitionBySuffix ==
    pc = "acquired" =>
        LET suffix == LowerExt(last.source.ext)
        IN IF suffix \in SUPPORTED_AUDIO_FORMATS
           THEN /\ last.audio = <<last.source>>
                /\ last.ffmpeg = 0
                /\ fs = last.before
           ELSE IF suffix \in SUPPORTED_VIDEO_FORMATS
           THEN /\ last.ffmpeg = 1
                /\ \A q \in last.created : q.dir = TEMP_DIR /\ q # last.source
                /\ \A k \in 1..Len(last.audio) :
                       /\ last.audio[k].dir = TEMP_DIR
                       /\ last.audio[k] # last.source
                       /\ Exists(fs, last.audio[k])
                /\ last.ff = "ok" => (last.audio # <<>> /\ last.created # {})
                /\ [path |-> last.source, by |-> "caller"] \in fs
           ELSE /\ last.audio = <<>>
                /\ last.ffmpeg = 0
                /\ fs = last.before

\* a video with a mixed-case suffix was transcoded into the temp directory
C14_Witness ==
    /\ pc = "acquired"
    /\ last.source = MemoVideo
    /\ last.ff = "ok"
    /\ last.ffmpeg = 1
    /\ last.audio = <<Path(TEMP_DIR, <<"memo", "_extracted">>, ".mp3")>>
    /\ Exists(fs, last.audio[1])

\* C18: two distinct inputs of one batch never map to the same temporary
\* audio path (local videos with the same stem in different folders or with
\* different extensions included).
C18_TempNamesUnique ==
    pc = "classified" =>
        \A i, j \in 1..Len(local_files) :
            (/\ local_files[i] # local_files[j]
             /\ LowerExt(local_files[i].ext) \in SUPPORTED_VIDEO_FORMATS
             /\ LowerExt(local_files[j].ext) \in SUPPORTED_VIDEO_FORMATS) =>
                TempAudioPath(local_files[i]) # TempAudioPath(local_files[j])

\* C19: scan_folder returns exactly the files under an existing directory (top
\* level, or all levels when recursive) whose extension matches the supported
\* set in any mix of upper and lower case, each once, sorted; the empty list
\* for a missing path or a directory without a match.
C19_ScanFolderCaseInsensitive ==
    pc = "scanned" =>
        LET wanted(q) ==
                /\ Exists(fs, q)
                /\ \/ q.dir = last.folder.dir
                   \/ last.recursive /\ ParentDir(q.dir) = last.folder.dir
                /\ LowerExt(q.ext) \in SUPPORTED_MEDIA_FORMATS
        IN IF last.folder \in ExistingDirs
           THEN local_files = SelectSeq(SortedCallerFiles, wanted)
           ELSE local_files = <<>>

(***************************************************************************)
(* Sentence-level spans of the Paraformer backend (checked under           *)
(* SpecBuilder)                                                            *)
(***************************************************************************)
SentenceInfoParsed ==
    /\ bpc = "parsed"
    /\ model_type = "paraformer"
    /\ raw.sentence_info # <<>>

\* segs are the spans sents, in order, times converted from ms to seconds
\* (a Segment time counts microseconds: 1 ms = 1000)
SpansVerbatim(segs, sents) ==
    /\ Len(segs) = Len(sents)
    /\ \A k \in 1..Len(sents) :
           /\ segs[k].start = sents[k].start * 1000
           /\ segs[k].end = sents[k].end * 1000
           /\ segs[k].text = sents[k].text

\* C15 as stated: with sentence_info present the result is one Segment per
\* sentence, in order, with the sentence's start, end (ms to seconds) and
\* text; the text and timestamp arrays are ignored.
C15_OneSegmentPerSentence ==
    SentenceInfoParsed => SpansVerbatim(segments, raw.sentence_info)

\* C15 amended: with sentence_info present the result is one Segment per
\* sentence whose text is not empty, in order, with that sentence's start,
\* end (ms to seconds) and text; sentences with empty text are left out, and
\* the text and timestamp arrays are ignored.
C15_SentenceSpansVerbatim ==
    SentenceInfoParsed =>
        SpansVerbatim(segments,
                      SelectSeq(raw.sentence_info, LAMBDA sent : sent.text # <<>>))

\* a result with three spans, one of them empty, and character timestamps
\* that disagree with the spans gave the two non-empty spans
C15_Witness ==
    /\ SentenceInfoParsed
    /\ Len(raw.sentence_info) = 3
    /\ raw.text # <<>>
    /\ Len(raw.timestamp) = Len(raw.text)
    /\ Len(segments) = 2
    /\ segments[1] = [start |-> 250000, end |-> 1250000, text |-> <<"H", "i">>]
    /\ segments[2].start = 1300000

(***************************************************************************)
(* Order of the steps of V2T.run (checked under Spec)                      *)
(***************************************************************************)
InLoop == pc \in {"local_loop", "url_loop"}

\* C16: the inputs are handled one at a time: every step of the two loops
\* handles exactly the input at the head of the remaining work, the URL loop
\* starts only when the local files are exhausted, and when the step is over
\* and another input may follow, the transcription, the writing and the
\* removal of the temporary audio of this input are finished (the removal has
\* been attempted, and has taken effect unless os.remove failed).
C16_OneInputAtATime ==
    [][InLoop =>
          /\ li' >= li
          /\ ui' >= ui
          /\ (li' - li) + (ui' - ui) = (IF last'.raised THEN 0 ELSE 1)
          /\ last'.kind = (IF pc = "local_loop" THEN "local" ELSE "url")
          /\ pc = "local_loop" => (last'.source = local_files[li] /\ ui' = ui)
          /\ pc = "url_loop" =>
                (last'.url = urls[ui] /\ li' = li /\ li > Len(local_files))
          /\ last'.raised <=> pc' = "raising"
          /\ (last'.audio # <<>> /\ ~last'.raised) => last'.backend \in {"segments", "empty", "error"}
          /\ (/\ pc' \in {"local_loop", "url_loop", "finally"}
              /\ ~args.keep_audio
              /\ last'.audio # <<>>
              /\ \/ pc = "url_loop"
                 \/ LowerExt(last'.source.ext) \in SUPPORTED_VIDEO_FORMATS) =>
                /\ last'.rm \in RemoveOutcomes
                /\ last'.rm = "ok" =>
                      (last'.removed = {last'.audio[1]} /\ ~Exists(fs', last'.audio[1]))
    ]_vars

\* a URL was started after a local video whose temporary audio was removed
C16_Witness ==
    /\ pc = "url_loop"
    /\ li = Len(local_files) + 1
    /\ ui = 1
    /\ last.kind = "local"
    /\ last.source = ClipVideo
    /\ last.removed = {TempAudioPath(ClipVideo)}
    /\ ~Exists(fs, TempAudioPath(ClipVideo))

\* C17: for a local video the transcoder is invoked exactly once and the
\* transcriber exactly once, after it and only if it succeeded; when the
\* normalization fails the transcriber is not invoked for that input.
C17_NormalizeOnceThenTranscribeOnce ==
    (/\ pc \in {"local_loop", "url_loop", "finally", "raising", "done", "raised"}
     /\ last.kind = "local"
     /\ LowerExt(last.source.ext) \in SUPPORTED_VIDEO_FORMATS) =>
        /\ last.ffmpeg = 1
        /\ last.ff \in {"nonzero", "nonzero_partial", "raises"} =>
               (last.audio = <<>> /\ last.backend = "not_called")
        /\ last.ff = "ok" =>
               (last.audio = <<TempAudioPath(last.source)>> /\ last.backend \in BackendOutcomes)
        /\ last.audio = <<>> <=> last.backend = "not_called"

\* a local video was transcoded, transcribed and its transcript written
C17_Witness ==
    /\ pc \in {"local_loop", "url_loop", "finally"}
    /\ last.kind = "local"
    /\ last.source = ClipVideo
    /\ last.ffmpeg = 1
    /\ last.ff = "ok"
    /\ last.backend = "segments"
    /\ last.outputs # {}

C21_CleanupFailuresStayLocal ==
    /\ (/\ pc \in {"local_loop", "url_loop", "finally", "raising", "done", "raised"}
        /\ last.rm = "fails") =>
           /\ ~last.raised
           /\ pc \notin {"raising", "raised"}
           /\ last.backend = "segments" =>
                  (last.outputs # {} /\ \A q \in last.outputs : Exists(fs, q))
           /\ Exists(fs, last.audio[1])
    /\ RunEnded =>
           /\ pc = "raised" <=> (obj.error = "ffmpeg" \/ last.raised)
           /\ pc = "done" => (li = Len(local_files) + 1 /\ ui = Len(urls) + 1)

\* a run returned although neither the audio of its last input nor the
\* cookie copy could be removed; the transcript of that input is there
C21_Witness ==
    /\ pc = "done"
    /\ last.rm = "fails"
    /\ last.outputs # {}
    /\ Exists(fs, last.audio[1])
    /\ obj.temp_cookie_file = TempCookie
    /\ Exists(fs, TempCookie)
    /\ Len(args.inputs) = 2

(***************************************************************************)
(* The cookies file (checked under Spec)                                   *)
(***************************************************************************)
\* C30: the downloader is only ever handed a temporary copy of the caller's
\* cookies file, or the original when copying failed; once V2T.run has
\* returned or raised the temporary copy no longer exists; the caller's
\* cookies file is never removed, also when it is used directly.
C30_CookieCopyIsTemporary ==
    pc \in {"constructed", "local_loop", "url_loop", "finally", "raising", "done", "raised"} =>
        /\ obj.cookies_file \in {NoPath, TempCookie, CookiesTxt}
        /\ obj.cookies_file # NoPath => args.cookies
        /\ obj.cookies_file = CookiesTxt => obj.temp_cookie_file = NoPath
        /\ args.cookies => [path |-> CookiesTxt, by |-> "caller"] \in fs
        /\ RunEnded => ~Exists(fs, TempCookie)

(***************************************************************************)
(* Properties of the writers (checked under SpecWriters)                   *)
(***************************************************************************)
\* the lines of a file's content: the pieces between line breaks
RECURSIVE LinesFrom(_, _)
LinesFrom(s, i) ==
    IF i > Len(s) THEN <<>>
    ELSE LET j == MinOf({k \in i..Len(s) : s[k] = "\n"} \cup {Len(s) + 1})
         IN <<Slice(s, i, j - 1)>> \o LinesFrom(s, j + 1)

\* a cue index: a non-empty string of digits
IsNumber(line) == line # <<>> /\ \A i \in 1..Len(line) : line[i] \in DigitChars

====
